---- MODULE Spec2Model ----
(***************************************************************************)
(* Layout aggregation and document reconstruction pipeline of docparsing   *)
(* (backend/vendor/docparsing).  Coordinates are fixed-point: the float    *)
(* 1.0 of the page is the integer One, so that every comparison, product   *)
(* and ratio of the source is computed exactly on integers.                *)
(***************************************************************************)
EXTENDS Integers, Sequences, FiniteSets, TLC

(* ---------------------------------------------------------------------- *)
(* Fixed-point scale and program constants                                 *)
(* ---------------------------------------------------------------------- *)
One == 200          \* the float 1.0 (upper limit of ClampedFloat)
Epsilon == 2        \* epsilon = 1e-2 of validate_clamped, in units of 1/One
ThrDen == 4         \* thresholds are the rationals n / ThrDen

Min2(a, b) == IF a <= b THEN a ELSE b
Max2(a, b) == IF a >= b THEN a ELSE b

VARIABLES
    \* --- Bbox / Element factories and the overlap predicate -----------
    cls,        \* class whose create() factory is called
    kwargs,     \* the coordinate keywords handed to create()
    created,    \* what create() gave back: a box, None, or an exception
    other,      \* second operand of is_bbox_within
    threshold,  \* overlap_threshold of is_bbox_within, as n / ThrDen
    within,     \* outcome of is_bbox_within: "true", "false", "ValueError", "-"
    \* --- column detection and reading order ---------------------------
    layout,     \* PLayout.root: the ordered elements, metadata included
    layout_ocr, \* the OCR layout handed to detect_columns (<<>>: None)
    columns,    \* columns_by_page last handed to the sorter
    returned,   \* every columns_by_page detect_columns has returned, in order
    history,    \* the calls made so far: "detect", "sort"
    \* --- Layout container ----------------------------------------------
    alias,      \* the Layout alias the object was built with
    root,       \* Layout.root
    raised,     \* exception raised by the last Layout operation, or "-"
    \* --- table cells and spanning cells --------------------------------
    grid,       \* the rows and columns predicted for the table
    spans,      \* the "table spanning cell" predictions, as boxes
    cells,      \* TableContent.cells
    converted,  \* convert_to_spanning_cells has run on cells
    spanning,   \* what get_spanning_cells returned, or NotComputed
    \* --- aggregation of the extractors' layouts -------------------------
    layouts,    \* the layouts handed to aggregate_layouts, in order
    merged,     \* root of the layout returned
    called,     \* "-" or the function called on the layouts
    \* --- tables joined over a page break ---------------------------------
    join_layout,    \* PLayout.root handed to join_table_overlapping_pages
    join_before,    \* that root at the time of the call, NotJoined before it
    join_raised,    \* "-", the exception raised, or "merge_element"
    \* --- tables and paragraphs populated with the OCR words ---------------
    pop_layout,     \* PLayout.root of the layout being populated, or NoLayout
    pop_ocr,        \* root of the OCR layout: lines and visual elements
    pop_columns,    \* columns_by_page (<<>>: None)
    pop_chapters,   \* look_for_chapters
    pop_calls,      \* the calls made, each with the layout and the OCR handed in
    \* --- refine_layout_order ----------------------------------------------
    ref_layout,     \* PLayout.root of the layout being refined
    ref_columns,    \* columns_by_page handed to refine_layout_order
    ref_n,          \* n of the while loop of refine_layout_order
    ref_pc,         \* "-", "titles" (in the while loop) or "done"
    ref_prev,       \* ref_layout before the last step
    \* --- DefaultParsing.default_pipeline -----------------------------------
    pipe_cfg,       \* the run: page batches, look_for_columns, words per batch
    pipe_pc,        \* the call default_pipeline makes next
    pipe_batch,     \* the page batch being processed (from 1)
    pipe_trace,     \* the calls made so far, each with its batch (0: the document)
    \* --- XmlExporter.export_xml --------------------------------------------
    xml_layout,     \* PLayout.root of the layout being exported
    xml_allow,      \* enrichment_config.allow_cross_page_nodes
    xml_tree,       \* hierarchy and split_candidate returned by _build_tree
    xml_pc,         \* "-", "export" (before _build_tree) or "built"
    \* --- DefaultParsing._extract_ocr ---------------------------------------
    ocr_cfg,        \* the settings of the job and the number of its batches
    ocr_pc,         \* "-", "extract", "align", "build", "end" or "raised"
    ocr_file,       \* file_content of the batch: its pages
    ocr_calls,      \* the OCR extractors called on the batch, in order
    ocr_fault,      \* the exception PdfPlumber raised on the batch, or "-"
    ocr_layout,     \* the extractor of results["layout_ocr"], or "-"
    ocr_done,       \* fault and extractor of the batches already built
    \* --- structuration/build_lines.py --------------------------------------
    bl_ocr,         \* WLayout.root of the OCR layout given
    bl_threshold,   \* threshold, in units of 1 / ThrDen
    bl_lines,       \* LLayout.root of the lines returned
    bl_pc,          \* "-", "build" or the method that built bl_lines
    bl_columns,     \* the column map given to build_lines_from_bbox
    \* --- utils.merge_layouts -----------------------------------------------
    mg_parts,       \* layout_and_pages: the parts handed to merge_layouts
    mg_out,         \* the merged layout and the word objects of every part
    mg_pc,          \* "-", "merge" or "merged"
    \* --- LayoutModifier.join_text_overlapping_pages ------------------------
    tx_layout,      \* layout.root
    tx_before,      \* layout.root before the call
    tx_joined,      \* the pairs of positions of tx_before that were merged
    tx_pc,          \* "-", "enrich" or "joined"
    \* --- DocumentBuilder.build_document: the boxes of the titles -----------
    tb_layout,      \* layout.root
    tb_ocr,         \* layout_ocr.root
    tb_columns,     \* columns
    tb_pc,          \* "-" or the next statement of build_document
    ct_table,       \* the Table given to make_table_content
    ct_words,       \* table_content: the OCR words within the table
    ct_made,        \* what make_table_content returned
    ct_pc,          \* "-", "make" or "made"
    ls_before,      \* layout.root given to join_list_overlapping_pages
    ls_layout,      \* layout.root afterwards
    ls_joined,      \* the pairs <<element, next_elem>> merged, in order
    ls_raised,      \* the exception raised, "-" for none
    ls_pc           \* "-", "enrich" or "joined"

varsBbox == <<cls, kwargs, created, other, threshold, within>>
varsSort == <<layout, layout_ocr, columns, returned, history>>
varsLayout == <<alias, root, raised>>
varsSpan == <<grid, spans, cells, converted, spanning>>
varsAggregate == <<layouts, merged, called>>
varsJoin == <<join_layout, join_before, join_raised>>
varsPopulate == <<pop_layout, pop_ocr, pop_columns, pop_chapters, pop_calls>>
varsRefine == <<ref_layout, ref_columns, ref_n, ref_pc, ref_prev>>
varsPipeline == <<pipe_cfg, pipe_pc, pipe_batch, pipe_trace>>
varsXml == <<xml_layout, xml_allow, xml_tree, xml_pc>>
varsOcr == <<ocr_cfg, ocr_pc, ocr_file, ocr_calls, ocr_fault, ocr_layout, ocr_done>>
varsLines == <<bl_ocr, bl_threshold, bl_lines, bl_pc, bl_columns>>
varsMerge == <<mg_parts, mg_out, mg_pc>>
varsText == <<tx_layout, tx_before, tx_joined, tx_pc>>
varsTitle == <<tb_layout, tb_ocr, tb_columns, tb_pc>>
varsList == <<ls_before, ls_layout, ls_joined, ls_raised, ls_pc>>
varsContent == <<ct_table, ct_words, ct_made, ct_pc>>
vars == <<varsBbox, varsSort, varsLayout, varsSpan, varsAggregate, varsJoin, varsPopulate, varsRefine, varsPipeline, varsXml, varsOcr, varsLines, varsMerge, varsText, varsTitle, varsList, varsContent>>

\* the state of a component that a specification does not exercise
IdleBbox ==
    /\ cls = "Bbox"
    /\ kwargs = [x0 |-> 0, y0 |-> 0, x1 |-> 0, y1 |-> 0]
    /\ created = [tag |-> "-", box |-> [x0 |-> 0, y0 |-> 0, x1 |-> 0, y1 |-> 0], type |-> "-"]
    /\ other = [x0 |-> 0, y0 |-> 0, x1 |-> 0, y1 |-> 0]
    /\ threshold = 0
    /\ within = "-"

IdleSort ==
    /\ layout = <<>>
    /\ layout_ocr = <<>>
    /\ columns = <<>>
    /\ returned = <<>>
    /\ history = <<>>

IdleLayout ==
    /\ alias = "PLayout"
    /\ root = <<>>
    /\ raised = "-"

NotComputed == [spanning_cells |-> <<>>, skip_pos |-> <<-1>>]

IdleSpan ==
    /\ grid = [rows |-> 0, columns |-> 0, header |-> FALSE]
    /\ spans = <<>>
    /\ cells = <<>>
    /\ converted = FALSE
    /\ spanning = NotComputed

IdleAggregate ==
    /\ layouts = <<>>
    /\ merged = <<>>
    /\ called = "-"

NotJoined == <<"-">>

IdleJoin ==
    /\ join_layout = <<>>
    /\ join_before = NotJoined
    /\ join_raised = "-"

IdlePopulate ==
    /\ pop_layout = <<>>
    /\ pop_ocr = <<>>
    /\ pop_columns = <<>>
    /\ pop_chapters = FALSE
    /\ pop_calls = <<>>

IdleRefine ==
    /\ ref_layout = <<>>
    /\ ref_columns = <<>>
    /\ ref_n = 0
    /\ ref_pc = "-"
    /\ ref_prev = <<>>

IdlePipeline ==
    /\ pipe_cfg = [batches |-> 0, look_for_columns |-> FALSE, words |-> <<>>]
    /\ pipe_pc = "-"
    /\ pipe_batch = 0
    /\ pipe_trace = <<>>

IdleXml ==
    /\ xml_layout = <<>>
    /\ xml_allow = TRUE
    /\ xml_tree = [hierarchy |-> <<>>, split_candidate |-> <<>>]
    /\ xml_pc = "-"

IdleOcr ==
    /\ ocr_cfg = <<>>
    /\ ocr_pc = "-"
    /\ ocr_file = <<>>
    /\ ocr_calls = <<>>
    /\ ocr_fault = "-"
    /\ ocr_layout = "-"
    /\ ocr_done = <<>>

IdleLines ==
    /\ bl_ocr = <<>>
    /\ bl_threshold = 0
    /\ bl_lines = <<>>
    /\ bl_pc = "-"
    /\ bl_columns = <<>>

IdleMerge ==
    /\ mg_parts = <<>>
    /\ mg_out = [root |-> <<>>, words |-> <<>>]
    /\ mg_pc = "-"

IdleText ==
    /\ tx_layout = <<>>
    /\ tx_before = <<>>
    /\ tx_joined = {}
    /\ tx_pc = "-"

IdleTitle ==
    /\ tb_layout = <<>>
    /\ tb_ocr = <<>>
    /\ tb_columns = <<>>
    /\ tb_pc = "-"

IdleList ==
    /\ ls_before = <<>>
    /\ ls_layout = <<>>
    /\ ls_joined = <<>>
    /\ ls_raised = "-"
    /\ ls_pc = "-"

IdleContent ==
    /\ ct_table = <<>>
    /\ ct_words = <<>>
    /\ ct_made = <<>>
    /\ ct_pc = "-"

OutsideBbox == <<varsSort, varsLayout, varsSpan, varsAggregate, varsJoin, varsPopulate, varsRefine, varsPipeline, varsXml, varsOcr, varsLines, varsMerge, varsText, varsTitle, varsList, varsContent>>
OutsideSort == <<varsBbox, varsLayout, varsSpan, varsAggregate, varsJoin, varsPopulate, varsRefine, varsPipeline, varsXml, varsOcr, varsLines, varsMerge, varsText, varsTitle, varsList, varsContent>>
OutsideLayout == <<varsBbox, varsSort, varsSpan, varsAggregate, varsJoin, varsPopulate, varsRefine, varsPipeline, varsXml, varsOcr, varsLines, varsMerge, varsText, varsTitle, varsList, varsContent>>
OutsideSpan == <<varsBbox, varsSort, varsLayout, varsAggregate, varsJoin, varsPopulate, varsRefine, varsPipeline, varsXml, varsOcr, varsLines, varsMerge, varsText, varsTitle, varsList, varsContent>>
OutsideAggregate == <<varsBbox, varsSort, varsLayout, varsSpan, varsJoin, varsPopulate, varsRefine, varsPipeline, varsXml, varsOcr, varsLines, varsMerge, varsText, varsTitle, varsList, varsContent>>
OutsideJoin == <<varsBbox, varsSort, varsLayout, varsSpan, varsAggregate, varsPopulate, varsRefine, varsPipeline, varsXml, varsOcr, varsLines, varsMerge, varsText, varsTitle, varsList, varsContent>>
OutsidePopulate == <<varsBbox, varsSort, varsLayout, varsSpan, varsAggregate, varsJoin, varsRefine, varsPipeline, varsXml, varsOcr, varsLines, varsMerge, varsText, varsTitle, varsList, varsContent>>
OutsideRefine == <<varsBbox, varsSort, varsLayout, varsSpan, varsAggregate, varsJoin, varsPopulate, varsPipeline, varsXml, varsOcr, varsLines, varsMerge, varsText, varsTitle, varsList, varsContent>>
OutsidePipeline == <<varsBbox, varsSort, varsLayout, varsSpan, varsAggregate, varsJoin, varsPopulate, varsRefine, varsXml, varsOcr, varsLines, varsMerge, varsText, varsTitle, varsList, varsContent>>
OutsideXml == <<varsBbox, varsSort, varsLayout, varsSpan, varsAggregate, varsJoin, varsPopulate, varsRefine, varsPipeline, varsOcr, varsLines, varsMerge, varsText, varsTitle, varsList, varsContent>>
OutsideOcr == <<varsBbox, varsSort, varsLayout, varsSpan, varsAggregate, varsJoin, varsPopulate, varsRefine, varsPipeline, varsXml, varsLines, varsMerge, varsText, varsTitle, varsList, varsContent>>
OutsideLines == <<varsBbox, varsSort, varsLayout, varsSpan, varsAggregate, varsJoin, varsPopulate, varsRefine, varsPipeline, varsXml, varsOcr, varsMerge, varsText, varsTitle, varsList, varsContent>>
OutsideMerge == <<varsBbox, varsSort, varsLayout, varsSpan, varsAggregate, varsJoin, varsPopulate, varsRefine, varsPipeline, varsXml, varsOcr, varsLines, varsText, varsTitle, varsList, varsContent>>
OutsideText == <<varsBbox, varsSort, varsLayout, varsSpan, varsAggregate, varsJoin, varsPopulate, varsRefine, varsPipeline, varsXml, varsOcr, varsLines, varsMerge, varsTitle, varsList, varsContent>>
OutsideTitle == <<varsBbox, varsSort, varsLayout, varsSpan, varsAggregate, varsJoin, varsPopulate, varsRefine, varsPipeline, varsXml, varsOcr, varsLines, varsMerge, varsText, varsList, varsContent>>
OutsideList == <<varsBbox, varsSort, varsLayout, varsSpan, varsAggregate, varsJoin, varsPopulate, varsRefine, varsPipeline, varsXml, varsOcr, varsLines, varsMerge, varsText, varsTitle, varsContent>>
OutsideContent == <<varsBbox, varsSort, varsLayout, varsSpan, varsAggregate, varsJoin, varsPopulate, varsRefine, varsPipeline, varsXml, varsOcr, varsLines, varsMerge, varsText, varsTitle, varsList>>
IdleOutsideBbox == IdleSort /\ IdleLayout /\ IdleSpan /\ IdleAggregate /\ IdleJoin /\ IdlePopulate /\ IdleRefine /\ IdlePipeline /\ IdleXml /\ IdleOcr /\ IdleLines /\ IdleMerge /\ IdleText /\ IdleTitle /\ IdleList /\ IdleContent
IdleOutsideSort == IdleBbox /\ IdleLayout /\ IdleSpan /\ IdleAggregate /\ IdleJoin /\ IdlePopulate /\ IdleRefine /\ IdlePipeline /\ IdleXml /\ IdleOcr /\ IdleLines /\ IdleMerge /\ IdleText /\ IdleTitle /\ IdleList /\ IdleContent
IdleOutsideLayout == IdleBbox /\ IdleSort /\ IdleSpan /\ IdleAggregate /\ IdleJoin /\ IdlePopulate /\ IdleRefine /\ IdlePipeline /\ IdleXml /\ IdleOcr /\ IdleLines /\ IdleMerge /\ IdleText /\ IdleTitle /\ IdleList /\ IdleContent
IdleOutsideSpan == IdleBbox /\ IdleSort /\ IdleLayout /\ IdleAggregate /\ IdleJoin /\ IdlePopulate /\ IdleRefine /\ IdlePipeline /\ IdleXml /\ IdleOcr /\ IdleLines /\ IdleMerge /\ IdleText /\ IdleTitle /\ IdleList /\ IdleContent
IdleOutsideAggregate == IdleBbox /\ IdleSort /\ IdleLayout /\ IdleSpan /\ IdleJoin /\ IdlePopulate /\ IdleRefine /\ IdlePipeline /\ IdleXml /\ IdleOcr /\ IdleLines /\ IdleMerge /\ IdleText /\ IdleTitle /\ IdleList /\ IdleContent
IdleOutsideJoin == IdleBbox /\ IdleSort /\ IdleLayout /\ IdleSpan /\ IdleAggregate /\ IdlePopulate /\ IdleRefine /\ IdlePipeline /\ IdleXml /\ IdleOcr /\ IdleLines /\ IdleMerge /\ IdleText /\ IdleTitle /\ IdleList /\ IdleContent
IdleOutsidePopulate == IdleBbox /\ IdleSort /\ IdleLayout /\ IdleSpan /\ IdleAggregate /\ IdleJoin /\ IdleRefine /\ IdlePipeline /\ IdleXml /\ IdleOcr /\ IdleLines /\ IdleMerge /\ IdleText /\ IdleTitle /\ IdleList /\ IdleContent
IdleOutsideRefine == IdleBbox /\ IdleSort /\ IdleLayout /\ IdleSpan /\ IdleAggregate /\ IdleJoin /\ IdlePopulate /\ IdlePipeline /\ IdleXml /\ IdleOcr /\ IdleLines /\ IdleMerge /\ IdleText /\ IdleTitle /\ IdleList /\ IdleContent
IdleOutsidePipeline == IdleBbox /\ IdleSort /\ IdleLayout /\ IdleSpan /\ IdleAggregate /\ IdleJoin /\ IdlePopulate /\ IdleRefine /\ IdleXml /\ IdleOcr /\ IdleLines /\ IdleMerge /\ IdleText /\ IdleTitle /\ IdleList /\ IdleContent
IdleOutsideXml == IdleBbox /\ IdleSort /\ IdleLayout /\ IdleSpan /\ IdleAggregate /\ IdleJoin /\ IdlePopulate /\ IdleRefine /\ IdlePipeline /\ IdleOcr /\ IdleLines /\ IdleMerge /\ IdleText /\ IdleTitle /\ IdleList /\ IdleContent
IdleOutsideOcr == IdleBbox /\ IdleSort /\ IdleLayout /\ IdleSpan /\ IdleAggregate /\ IdleJoin /\ IdlePopulate /\ IdleRefine /\ IdlePipeline /\ IdleXml /\ IdleLines /\ IdleMerge /\ IdleText /\ IdleTitle /\ IdleList /\ IdleContent
IdleOutsideLines == IdleBbox /\ IdleSort /\ IdleLayout /\ IdleSpan /\ IdleAggregate /\ IdleJoin /\ IdlePopulate /\ IdleRefine /\ IdlePipeline /\ IdleXml /\ IdleOcr /\ IdleMerge /\ IdleText /\ IdleTitle /\ IdleList /\ IdleContent
IdleOutsideMerge == IdleBbox /\ IdleSort /\ IdleLayout /\ IdleSpan /\ IdleAggregate /\ IdleJoin /\ IdlePopulate /\ IdleRefine /\ IdlePipeline /\ IdleXml /\ IdleOcr /\ IdleLines /\ IdleText /\ IdleTitle /\ IdleList /\ IdleContent
IdleOutsideText == IdleBbox /\ IdleSort /\ IdleLayout /\ IdleSpan /\ IdleAggregate /\ IdleJoin /\ IdlePopulate /\ IdleRefine /\ IdlePipeline /\ IdleXml /\ IdleOcr /\ IdleLines /\ IdleMerge /\ IdleTitle /\ IdleList /\ IdleContent
IdleOutsideTitle == IdleBbox /\ IdleSort /\ IdleLayout /\ IdleSpan /\ IdleAggregate /\ IdleJoin /\ IdlePopulate /\ IdleRefine /\ IdlePipeline /\ IdleXml /\ IdleOcr /\ IdleLines /\ IdleMerge /\ IdleText /\ IdleList /\ IdleContent
IdleOutsideList == IdleBbox /\ IdleSort /\ IdleLayout /\ IdleSpan /\ IdleAggregate /\ IdleJoin /\ IdlePopulate /\ IdleRefine /\ IdlePipeline /\ IdleXml /\ IdleOcr /\ IdleLines /\ IdleMerge /\ IdleText /\ IdleTitle /\ IdleContent
IdleOutsideContent == IdleBbox /\ IdleSort /\ IdleLayout /\ IdleSpan /\ IdleAggregate /\ IdleJoin /\ IdlePopulate /\ IdleRefine /\ IdlePipeline /\ IdleXml /\ IdleOcr /\ IdleLines /\ IdleMerge /\ IdleText /\ IdleTitle /\ IdleList

(* ---------------------------------------------------------------------- *)
(* schemas/elements.py: Bbox, Element and the create factory               *)
(* ---------------------------------------------------------------------- *)
ElementClasses ==
    {"Bbox", "VisualElement", "Word", "Line", "Cell", "Table", "TableContent",
     "Text", "List", "Title", "Extra", "Header", "Footer", "Image"}

\* type tag carried by an instance of each class (Bbox itself has none)
TypeOf(c) ==
    CASE c = "Bbox" -> "bbox"
      [] c = "VisualElement" -> "visualElement"
      [] c = "Word" -> "word"
      [] c = "Line" -> "line"
      [] c = "Cell" -> "cell"
      [] c = "Table" -> "table"
      [] c = "TableContent" -> "tableContent"
      [] c = "Text" -> "text"
      [] c = "List" -> "list"
      [] c = "Title" -> "title"
      [] c = "Extra" -> "extra"
      [] c = "Header" -> "header"
      [] c = "Footer" -> "footer"
      [] c = "Image" -> "image"

NoBox == [x0 |-> 0, y0 |-> 0, x1 |-> 0, y1 |-> 0]

\* validate_clamped (mode="before"): snap values just outside [0,1] onto it
ClampValue(v) ==
    IF One < v /\ v < One + Epsilon THEN One
    ELSE IF -Epsilon < v /\ v < 0 THEN 0
    ELSE v

validate_clamped(values) ==
    [x0 |-> ClampValue(values.x0), y0 |-> ClampValue(values.y0),
     x1 |-> ClampValue(values.x1), y1 |-> ClampValue(values.y1)]

\* ClampedFloat = Field(strict=True, ge=0, le=1): error types of one field
FieldErrors(v) ==
    (IF v < 0 THEN {"greater_than_equal"} ELSE {}) \cup
    (IF v > One THEN {"less_than_equal"} ELSE {})

ValidationErrors(values) ==
    FieldErrors(values.x0) \cup FieldErrors(values.x1) \cup
    FieldErrors(values.y0) \cup FieldErrors(values.y1)

\* mutant: validate_ccc comparing with <= (a degenerate box passes)
validate_ccc_le(b) == b.x0 <= b.x1 /\ b.y0 <= b.y1

\* validate_ccc (mode="after"): TRUE iff no CoordinatesError is raised
validate_ccc(b) == b.x0 < b.x1 /\ b.y0 < b.y1

\* cls(**kwargs): before-validator, field validation, after-validator
Construct(c, values) ==
    LET v == validate_clamped(values)
        errs == ValidationErrors(v)
    IN  IF errs # {} THEN [tag |-> "ValidationError", errors |-> errs, box |-> NoBox, type |-> "-"]
        ELSE IF ~validate_ccc(v) THEN [tag |-> "CoordinatesError", errors |-> {}, box |-> NoBox, type |-> "-"]
        ELSE [tag |-> "ok", errors |-> {}, box |-> v, type |-> TypeOf(c)]

\* Bbox.create: None on CoordinatesError and on range errors, else re-raise
create(c, values) ==
    LET r == Construct(c, values)
    IN  CASE r.tag = "ok" -> [tag |-> "ok", box |-> r.box, type |-> r.type]
          [] r.tag = "CoordinatesError" -> [tag |-> "None", box |-> NoBox, type |-> "-"]
          [] r.tag = "ValidationError" ->
                IF \E e \in r.errors : e \notin {"less_than_equal", "greater_than_equal"}
                THEN [tag |-> "raise", box |-> NoBox, type |-> "-"]
                ELSE [tag |-> "None", box |-> NoBox, type |-> "-"]

\* Bbox.area
Area(b) == (b.x1 - b.x0) * (b.y1 - b.y0)

(* ---------------------------------------------------------------------- *)
(* utils.py: interval and box overlap                                      *)
(* ---------------------------------------------------------------------- *)
\* match_interval without threshold
match_interval(i1, i2) == i1[1] < i2[2] /\ i2[1] <= i1[2]

\* match_interval with threshold num/den: overlap / len(i1) >= num/den
match_interval_thr(i1, i2, num, den) ==
    LET start == Max2(i1[1], i2[1])
        end == Min2(i1[2], i2[2])
    IN  den * Max2(0, end - start) >= num * (i1[2] - i1[1])

calculate_intersection_area(e1, e2) ==
    IF e1.x0 >= e2.x1 \/ e2.x0 >= e1.x1 \/ e1.y0 >= e2.y1 \/ e2.y0 >= e1.y1
    THEN 0
    ELSE Max2(0, (Min2(e1.x1, e2.x1) - Max2(e1.x0, e2.x0)) *
                 (Min2(e1.y1, e2.y1) - Max2(e1.y0, e2.y0)))

\* mutant: strict comparison of the ratio with the threshold
is_bbox_within_strict(e1, e2, num, den) ==
    IF num < 0 THEN "ValueError"
    ELSE IF Area(e1) > 0 /\ den * calculate_intersection_area(e1, e2) > num * Area(e1)
         THEN "true" ELSE "false"

\* is_bbox_within(elem1, elem2, overlap_threshold = num/den)
is_bbox_within(e1, e2, num, den) ==
    IF num < 0 THEN "ValueError"
    ELSE IF Area(e1) > 0 /\ den * calculate_intersection_area(e1, e2) >= num * Area(e1)
         THEN "true" ELSE "false"

\* boolean use of is_bbox_within by callers that pass a valid threshold
Within(e1, e2, num, den) == is_bbox_within(e1, e2, num, den) = "true"

(* ---------------------------------------------------------------------- *)
(* Generic sequence helpers (Python list idioms)                           *)
(* ---------------------------------------------------------------------- *)
RECURSIVE ConcatAll(_)
\* sum(list_of_lists, [])
ConcatAll(ss) == IF ss = <<>> THEN <<>> ELSE Head(ss) \o ConcatAll(Tail(ss))

Reverse(s) == [i \in 1..Len(s) |-> s[Len(s) + 1 - i]]

\* tuple comparison of two keys of the same length
LexLess(a, b) ==
    \E k \in 1..Len(a) : (\A j \in 1..(k - 1) : a[j] = b[j]) /\ a[k] < b[k]

\* sorted(s, key=...), key[i] being the key of s[i]: Python's sort is stable,
\* so an item goes behind the items of smaller key and behind the earlier
\* items of equal key
SortedBy(s, key) ==
    LET n == Len(s)
        rank(i) == Cardinality({j \in 1..n :
                       LexLess(key[j], key[i]) \/ (key[j] = key[i] /\ j < i)})
    IN  [r \in 1..n |-> s[CHOOSE i \in 1..n : rank(i) = r - 1]]

SeqMin(s) == CHOOSE m \in {s[i] : i \in 1..Len(s)} : \A i \in 1..Len(s) : m <= s[i]
SeqMax(s) == CHOOSE m \in {s[i] : i \in 1..Len(s)} : \A i \in 1..Len(s) : m >= s[i]

(* ---------------------------------------------------------------------- *)
(* Elements of a layout                                                    *)
(*   id       object identity (Python `is`)                                *)
(*   type     ElementType tag                                              *)
(*   page     metadata["page"]                                             *)
(*   ext      metadata["extended_x"]: <<>> when absent, else <<x0, x1>>    *)
(*   columns  metadata["columns"]: <<"unset">> when the key is absent      *)
(* ---------------------------------------------------------------------- *)
ExtraTypes == {"extra", "header", "footer"}          \* isinstance(e, Extra)
ParagraphTypes == {"text", "list", "title", "image"} \cup ExtraTypes
TableTypes == {"table", "tableContent"}              \* isinstance(e, Table)
PLayoutTypes == ParagraphTypes \cup TableTypes \cup {"visualElement"}

Unset == <<"unset">>

\* metadata.get("columns", [])
ColumnsOf(e) == IF e.columns = Unset THEN <<>> ELSE e.columns

\* Element.extended_x0 / extended_x1
extended_x0(e) == IF e.ext # <<>> THEN e.ext[1] ELSE e.x0
extended_x1(e) == IF e.ext # <<>> THEN e.ext[2] ELSE e.x1

\* pydantic equality of two elements: every field but the object identity
PyEq(a, b) == [a EXCEPT !.id = 0] = [b EXCEPT !.id = 0]

\* `element in some_list`, the list given as elements
PyIn(e, s) == \E i \in 1..Len(s) : PyEq(s[i], e)

\* Layout.page_count
page_count(lay) ==
    IF lay = <<>> THEN 0 ELSE 1 + SeqMax([i \in 1..Len(lay) |-> lay[i].page])

\* Layout.get_elements_by_page
get_elements_by_page(lay, p) == SelectSeq(lay, LAMBDA e : e.page = p)

\* Layout.sort_by_bbox: key (page, y1, x1)
sort_by_bbox(lay) ==
    SortedBy(lay, [i \in 1..Len(lay) |-> <<lay[i].page, lay[i].y1, lay[i].x1>>])

\* Layout.sort_by_page
sort_by_page(lay) == SortedBy(lay, [i \in 1..Len(lay) |-> <<lay[i].page>>])

(* ---------------------------------------------------------------------- *)
(* structuration/sort_layout.py: column detection                          *)
(* Coordinates of the inputs are even, so the midpoint s0 + (s1 - s0)/2    *)
(* is exact.                                                               *)
(* ---------------------------------------------------------------------- *)
\* x_tolerance_ratio = 0.04 = 4/100; no tolerance for top-of-page columns
block_contain_space(s, element, y_min) ==
    LET ex0 == extended_x0(element)
        ex1 == extended_x1(element)
        tol4 == IF y_min > 0 THEN 4 * Min2(s[2] - s[1], ex1 - ex0) ELSE 0
    IN  /\ 100 * ex0 - tol4 <= 100 * s[1]
        /\ s[1] <= ex1
        /\ ex0 <= s[2]
        /\ 100 * s[2] <= 100 * ex1 + tol4

\* min_gap_ratio = 1.0: only a Word can make a gap insignificant
is_significant_gap(s, element) ==
    IF element.type = "word" THEN s[2] - s[1] > element.y1 - element.y0 ELSE TRUE

MidColumn(s, y_min, element) == <<s[1] + (s[2] - s[1]) \div 2, y_min, element.y0>>

\* what split_interval does with one space interval s
SplitOne(s, element, y_min) ==
    LET ex0 == extended_x0(element)
        ex1 == extended_x1(element)
        col == <<MidColumn(s, y_min, element)>>
        left == <<s[1], ex0>>
        right == <<ex1, s[2]>>
        keepL == is_significant_gap(left, element)
        keepR == is_significant_gap(right, element)
    IN  IF block_contain_space(s, element, y_min)
        THEN [space |-> <<>>, columns |-> col]
        ELSE IF s[1] <= ex0 /\ ex0 <= s[2] /\ s[1] <= ex1 /\ ex1 <= s[2]
        THEN [space |-> (IF keepL THEN <<left>> ELSE <<>>) \o (IF keepR THEN <<right>> ELSE <<>>),
              columns |-> (IF keepL THEN <<>> ELSE col) \o (IF keepR THEN <<>> ELSE col)]
        ELSE IF s[1] <= ex0 /\ ex0 <= s[2]
        THEN [space |-> IF keepL THEN <<left>> ELSE <<>>,
              columns |-> IF keepL THEN <<>> ELSE col]
        ELSE IF s[1] <= ex1 /\ ex1 <= s[2]
        THEN [space |-> IF keepR THEN <<right>> ELSE <<>>,
              columns |-> IF keepR THEN <<>> ELSE col]
        ELSE [space |-> <<s>>, columns |-> <<>>]

RECURSIVE split_interval(_, _, _)
\* split_interval(space, element, y_min) -> (new_space, columns)
split_interval(space, element, y_min) ==
    IF space = <<>> THEN [space |-> <<>>, columns |-> <<>>]
    ELSE LET h == SplitOne(Head(space), element, y_min)
             t == split_interval(Tail(space), element, y_min)
         IN  [space |-> h.space \o t.space, columns |-> h.columns \o t.columns]

RECURSIVE SplitAll(_, _, _, _)
\* the loop `for element in obstacles: x_interval, columns = split_interval(...)`
SplitAll(space, cols, obstacles, y_min) ==
    IF obstacles = <<>> THEN [space |-> space, columns |-> cols]
    ELSE LET r == split_interval(space, Head(obstacles), y_min)
         IN  SplitAll(r.space, cols \o r.columns, Tail(obstacles), y_min)

\* the columns left open at the end of a scan: (mid, y_min, 1)
OpenColumns(space, y_min) ==
    [i \in 1..Len(space) |->
        <<space[i][1] + (space[i][2] - space[i][1]) \div 2, y_min, One>>]

RECURSIVE NextCandidates(_, _, _)
\* candidate loop of extend_title_bbox; y_tolerance_ratio = 0.1 = 1/10
NextCandidates(cur, elements, cands) ==
    IF elements = <<>> THEN cands
    ELSE LET n == Head(elements)
             tol10 == cur.y1 - cur.y0     \* 10 * y_tolerance
             below == n.y0 > cur.y1 /\ match_interval(<<n.x0, n.x1>>, <<cur.x0, cur.x1>>)
             c2 == IF ~below THEN cands
                   ELSE IF cands = <<>> THEN <<n>>
                   ELSE IF \A i \in 1..Len(cands) :
                            /\ 10 * cands[i].y0 - tol10 < 10 * n.y0
                            /\ 10 * n.y0 < 10 * cands[i].y0 + tol10
                        THEN Append(cands, n)
                   ELSE IF \A i \in 1..Len(cands) : n.y0 < cands[i].y0 THEN <<n>>
                   ELSE cands
         IN  NextCandidates(cur, Tail(elements), c2)

\* metadata["extended_x"] of cur after extend_title_bbox(elements)
ExtendedOf(cur, elements) ==
    LET cands == NextCandidates(cur, elements, <<>>)
        ext == <<Min2(cur.x0, SeqMin([i \in 1..Len(cands) |-> cands[i].x0])),
                 Max2(cur.x1, SeqMax([i \in 1..Len(cands) |-> cands[i].x1]))>>
    IN  IF cur.type # "title" \/ cands = <<>> THEN cur.ext
        ELSE IF \E i \in 1..Len(elements) :
                    /\ elements[i].id # cur.id
                    /\ match_interval(ext, <<elements[i].x0, elements[i].x1>>)
                    /\ match_interval(<<cur.y0, cur.y1>>, <<elements[i].y0, elements[i].y1>>)
             THEN cur.ext
             ELSE ext

\* extend_title_bbox, applied by detect_columns to the elements of each page:
\* the widened box of a Title is computed from the plain boxes of its page
extend_title_bbox(lay) ==
    [i \in 1..Len(lay) |->
        [lay[i] EXCEPT !.ext = ExtendedOf(lay[i], get_elements_by_page(lay, lay[i].page))]]

\* top-of-page scan of one page: stubs closed by an element, then (x, 0, 1)
TopScan(elements) ==
    SplitAll(<<<<0, One>>>>, <<>>,
             SelectSeq(elements, LAMBDA e : e.type \notin ExtraTypes /\ e.y0 > 0), 0)

ScanColumns(r, y_min) == r.columns \o OpenColumns(r.space, y_min)

TopColumns(elements) == ScanColumns(TopScan(elements), 0)

\* sorted(columns, key=lambda x: x[0])
SortedByX(cols) == SortedBy(cols, [i \in 1..Len(cols) |-> <<cols[i][1]>>])

\* sorted(columns, key=lambda x: (x[1], x[0]))
SortedByYX(cols) == SortedBy(cols, [i \in 1..Len(cols) |-> <<cols[i][2], cols[i][1]>>])

\* columns found below start_element in this call (before they are added to
\* what metadata["columns"] already holds)
NewColumnsOf(start, all_elem) ==
    ScanColumns(SplitAll(<<<<start.x0, start.x1>>>>, <<>>,
                         SelectSeq(all_elem, LAMBDA e : e.y0 > start.y1), start.y1),
                start.y1)

\* metadata["columns"] of start_element after the per-element scan
ElementColumns(start, all_elem) ==
    SortedByX(ColumnsOf(start) \o NewColumnsOf(start, all_elem))

\* all_elem of one page: the elements, plus the OCR elements of the page
\* sorted together by (y0, x0) when an OCR layout is given
SortedByY0X0(s) == SortedBy(s, [i \in 1..Len(s) |-> <<s[i].y0, s[i].x0>>])

AllElem(elements, ocr, withOcr) ==
    IF withOcr /\ elements # <<>>
    THEN SortedByY0X0(elements \o get_elements_by_page(ocr, elements[1].page))
    ELSE elements

\* the per-element scan of detect_columns on every page: lay has its
\* extended_x set
WithElementColumns(lay, ocr, withOcr) ==
    [i \in 1..Len(lay) |->
        [lay[i] EXCEPT !.columns =
            ElementColumns(lay[i],
                AllElem(get_elements_by_page(lay, lay[i].page), ocr, withOcr))]]

\* space_columns of one page, sorted by (y0, x); elements carry their columns
PageColumns(elements) ==
    IF elements = <<>> THEN <<>>
    ELSE SortedByYX(TopColumns(elements) \o
                    ConcatAll([i \in 1..Len(elements) |-> elements[i].columns]))

\* what detect_columns leaves and returns, lay being the updated layout
DetectResult(lay) ==
    [layout |-> lay,
     columns_by_page |->
        [p \in 1..page_count(lay) |-> PageColumns(get_elements_by_page(lay, p - 1))]]

\* detect_columns(layout, layout_ocr): the layout with its metadata updated
\* in place, and columns_by_page
detect_columns(lay, ocr, withOcr) ==
    DetectResult(WithElementColumns(extend_title_bbox(lay), ocr, withOcr))

(* ---------------------------------------------------------------------- *)
(* structuration/sort_layout.py: reading order                             *)
(* ---------------------------------------------------------------------- *)
\* element lies left of the column and matches its y-range (threshold 0.1)
MatchesColumn(e, col) ==
    e.x0 < col[1] /\ match_interval_thr(<<e.y0, e.y1>>, <<col[2], col[3]>>, 1, 10)

filter_relevant_columns(all_columns, elements) ==
    SelectSeq(all_columns,
        LAMBDA col :
            LET n == Cardinality({i \in 1..Len(elements) : MatchesColumn(elements[i], col)})
            IN  n > 0 /\ n # Len(elements))

\* columns of the elements already placed on the page of `element`, the
\* latest placed first
AllPrevCol(ordered, element) ==
    ConcatAll([i \in 1..Len(ordered) |->
        LET e == Reverse(ordered)[i]
        IN  IF e.page = element.page THEN ColumnsOf(e) ELSE <<>>])

RECURSIVE recurs_append_columns(_, _, _)
RECURSIVE RecursElements(_, _, _)
RECURSIVE RecursColumns(_, _, _)

\* `for col in cols: recurs_append_columns(elements, col, ordered_layout)`
RecursColumns(elements, cols, ordered) ==
    IF cols = <<>> THEN ordered
    ELSE RecursColumns(elements, Tail(cols),
                       recurs_append_columns(elements, Head(cols), ordered))

\* `for element in elem_matching_col[k..]: ...`
RecursElements(matching, k, ordered) ==
    IF k > Len(matching) THEN ordered
    ELSE LET element == matching[k]
         IN  IF PyIn(element, ordered)
             THEN RecursElements(matching, k + 1, ordered)
             ELSE LET ordered1 == Append(ordered, element)
                      cols == filter_relevant_columns(AllPrevCol(ordered1, element), matching)
                  IN  RecursElements(matching, k + 1,
                                     RecursColumns(matching, cols, ordered1))

\* recurs_append_columns(elements, column, ordered_layout): ordered_layout after
recurs_append_columns(elements, column, ordered) ==
    RecursElements(SelectSeq(elements, LAMBDA e : MatchesColumn(e, column)), 1, ordered)

\* top-of-page columns are cached on the first element of the page, after
\* the page has been ordered
WithTopColumns(e, first, cols) ==
    LET top == SelectSeq(cols, LAMBDA c : c[2] = 0)
    IN  IF e.id = first.id /\ top # <<>>
        THEN [e EXCEPT !.columns = ColumnsOf(e) \o top]
        ELSE e

RECURSIVE SortPages(_, _, _, _)
\* the page loop of sort_layout_by_reading_order, from page p on
SortPages(lay, cols_by_page, p, ordered) ==
    IF p >= page_count(lay) THEN [layout |-> lay, ordered |-> ordered]
    ELSE LET elements == get_elements_by_page(lay, p)
             cols == cols_by_page[p + 1]
             ordered1 == RecursColumns(elements, cols, ordered)
             mark(s) == IF elements = <<>> THEN s
                        ELSE [i \in 1..Len(s) |-> WithTopColumns(s[i], elements[1], cols)]
         IN  SortPages(mark(lay), cols_by_page, p + 1, mark(ordered1))

RECURSIVE AppendRest(_, _)
\* elements the traversal did not reach are appended (with a warning)
AppendRest(rest, ordered) ==
    IF rest = <<>> THEN ordered
    ELSE AppendRest(Tail(rest),
                    IF PyIn(Head(rest), ordered) THEN ordered ELSE Append(ordered, Head(rest)))

\* what the column traversal placed, before the leftover loop
TraversalOrder(lay, cols_by_page) ==
    SortPages(sort_by_bbox(lay), cols_by_page, 0, <<>>)

WithRest(r) == AppendRest(r.layout, r.ordered)

\* sort_layout_by_reading_order(layout, columns): layout.root after the call
sort_layout_by_reading_order(lay, cols_by_page) ==
    WithRest(TraversalOrder(lay, cols_by_page))

(* ---------------------------------------------------------------------- *)
(* Specification SpecBbox: the factories and the overlap predicate         *)
(* ---------------------------------------------------------------------- *)
\* -0.015, -0.005, 0, 0.5, 1, 1.005, 1.015
KwCoords == {-3, -1, 0, 100, 200, 201, 203}
BoxCoords == {0, 100, 200}
Thresholds == {-1, 0, 1, 3, 4, 5}
ValidBoxes ==
    {b \in [x0 : BoxCoords, y0 : BoxCoords, x1 : BoxCoords, y1 : BoxCoords] :
        b.x0 < b.x1 /\ b.y0 < b.y1}

NotCreated == [tag |-> "-", box |-> NoBox, type |-> "-"]

InitBbox ==
    /\ cls \in ElementClasses
    /\ kwargs \in [x0 : KwCoords, y0 : KwCoords, x1 : KwCoords, y1 : KwCoords]
    /\ created = NotCreated
    /\ other = NoBox
    /\ threshold = 0
    /\ within = "-"
    /\ IdleOutsideBbox

\* cls.create(x0=.., y0=.., x1=.., y1=..)
Create ==
    /\ created.tag = "-"
    /\ created' = create(cls, kwargs)
    /\ UNCHANGED <<cls, kwargs, other, threshold, within>>
    /\ UNCHANGED OutsideBbox

\* is_bbox_within(created, b, t) on a created element and any valid box
IsBboxWithin ==
    /\ created.tag = "ok"
    /\ within = "-"
    /\ \E b \in ValidBoxes, t \in Thresholds :
          /\ other' = b
          /\ threshold' = t
          /\ within' = is_bbox_within(created.box, b, t, ThrDen)
    /\ UNCHANGED <<cls, kwargs, created>>
    /\ UNCHANGED OutsideBbox

NextBbox == Create \/ IsBboxWithin

SpecBbox == InitBbox /\ [][NextBbox]_vars

(* ---------------------------------------------------------------------- *)
(* Claims on SpecBbox                                                      *)
(* ---------------------------------------------------------------------- *)
Degenerate(v) == v.x0 >= v.x1 \/ v.y0 >= v.y1

\* C1: for every coordinate quadruple with x0 >= x1 or y0 >= y1 the create
\* factory of Bbox and of every Element subclass returns None (it does not
\* raise), and no factory result is a box of zero or negative area.
C1_DegenerateGivesNone ==
    created.tag # "-" =>
        /\ (Degenerate(kwargs) => created.tag = "None")
        /\ (created.tag = "ok" => Area(created.box) > 0)

C1_Witness ==
    /\ created.tag = "None"
    /\ kwargs.x0 = kwargs.x1
    /\ kwargs.y0 < kwargs.y1
    /\ cls = "Title"

\* C2 (as stated): is_bbox_within(a, a, t) is true for every threshold t <= 1
C2_SelfWithinAnyThreshold ==
    (within # "-" /\ other = created.box /\ threshold <= ThrDen) => within = "true"

\* C2 (amended): is_bbox_within(a, a, t) is true for every valid box a and
\* every threshold 0 <= t <= 1
C2_SelfWithin ==
    (within # "-" /\ other = created.box /\ 0 <= threshold /\ threshold <= ThrDen)
        => within = "true"

C2_Witness ==
    /\ within = "true"
    /\ other = created.box
    /\ threshold = ThrDen

(* ---------------------------------------------------------------------- *)
(* Specification SpecSort: detect_columns and sort_layout_by_reading_order *)
(* called on one layout, as build_document calls them                      *)
(* ---------------------------------------------------------------------- *)
MaxElems == 4       \* elements of a layout
MaxCalls == 2       \* calls made on one layout

Elem(t, a, b, c, d) ==
    [id |-> 0, type |-> t, page |-> 0, x0 |-> a, y0 |-> b, x1 |-> c, y1 |-> d,
     ext |-> <<>>, columns |-> Unset]

\* boxes of one page, in units of 1/One
Catalogue ==
    { Elem("text", 0, 0, 80, 20),        \* paragraph A (0, 0, 0.4, 0.1)
      Elem("text", 120, 0, 200, 20),     \* paragraph B (0.6, 0, 1.0, 0.1)
      Elem("title", 0, 10, 200, 30),     \* a title over the whole width
      Elem("text", 0, 40, 80, 200),      \* a tall left column
      Elem("text", 120, 40, 160, 80),    \* a short block right of it
      Elem("text", 160, 50, 200, 100),   \* a block at the right edge
      Elem("title", 20, 30, 60, 38),     \* a narrow title
      Elem("header", 0, 2, 200, 8) }     \* a running header

\* the layouts: distinct boxes of the catalogue in any order
Layouts ==
    UNION { { s \in [1..n -> Catalogue] : \A i, j \in 1..n : i # j => s[i] # s[j] } :
            n \in 1..MaxElems }

\* layouts holding two elements with the same field values: an element of a
\* layout of distinct boxes once more at the end
TwinLayouts ==
    UNION { { Append(s, s[k]) : k \in 1..Len(s) } :
            s \in { q \in Layouts : Len(q) < MaxElems - 1 } }

WithIds(s) == [i \in 1..Len(s) |-> [s[i] EXCEPT !.id = i]]

InitSort ==
    /\ \E s \in Layouts \cup TwinLayouts : layout = WithIds(s)
    /\ layout_ocr = <<>>
    /\ columns = <<>>
    /\ returned = <<>>
    /\ history = <<>>
    /\ IdleOutsideSort

\* columns = detect_columns(layout, layout_ocr)
DetectColumns ==
    /\ Len(history) < MaxCalls
    /\ \E r \in {detect_columns(layout, layout_ocr, layout_ocr # <<>>)} :
           /\ layout' = r.layout
           /\ columns' = r.columns_by_page
           /\ returned' = Append(returned, r.columns_by_page)
    /\ history' = Append(history, "detect")
    /\ UNCHANGED layout_ocr
    /\ UNCHANGED OutsideSort

\* layout = sort_layout_by_reading_order(layout, columns)
SortByReadingOrder ==
    /\ Len(history) < MaxCalls
    /\ history # <<>>
    /\ history[Len(history)] = "detect"
    /\ layout' = sort_layout_by_reading_order(layout, columns)
    /\ history' = Append(history, "sort")
    /\ UNCHANGED <<layout_ocr, columns, returned>>
    /\ UNCHANGED OutsideSort

NextSort == DetectColumns \/ SortByReadingOrder

SpecSort == InitSort /\ [][NextSort]_vars

(* ---------------------------------------------------------------------- *)
(* Claims on SpecSort                                                      *)
(* ---------------------------------------------------------------------- *)
\* C3: detect_columns is idempotent on an unchanged layout: the second of
\* two calls in a row returns the same columns_by_page as the first.
C3_DetectIdempotent ==
    \A k \in 1..(Len(history) - 1) :
        (history[k] = "detect" /\ history[k + 1] = "detect") =>
            LET n == Cardinality({j \in 1..k : history[j] = "detect"})
            IN  returned[n + 1] = returned[n]

IndexOf(lay, i) == CHOOSE k \in 1..Len(lay) : lay[k].id = i

\* a column of the page lies strictly between L and R and matches both
ColumnBetween(L, R, col) ==
    /\ L.x1 < col[1]
    /\ col[1] < R.x0
    /\ match_interval_thr(<<L.y0, L.y1>>, <<col[2], col[3]>>, 1, 10)
    /\ match_interval_thr(<<R.y0, R.y1>>, <<col[2], col[3]>>, 1, 10)

\* C4: in the output of sort_layout_by_reading_order, two elements of one
\* page with a detected column strictly between them (both y-ranges matching
\* the column's) come out left element first.
C4_LeftBeforeRight ==
    (history # <<>> /\ history[Len(history)] = "sort") =>
        \A i, j \in 1..Len(layout) :
            LET L == layout[i]
                R == layout[j]
            IN  (/\ L.page = R.page
                 /\ \E c \in 1..Len(columns[L.page + 1]) :
                        ColumnBetween(L, R, columns[L.page + 1][c]))
                => i < j

(* ---------------------------------------------------------------------- *)
(* schemas/elements.py: the Layout container                               *)
(* ---------------------------------------------------------------------- *)
\* element types each alias accepts at construction (the discriminated union)
AliasTypes(a) ==
    CASE a = "WLayout" -> {"word", "visualElement"}
      [] a = "LLayout" -> {"line", "visualElement"}
      [] a = "PLayout" -> PLayoutTypes

\* Layout._validate_elements_type: TRUE iff no ValueError is raised
validate_elements_type(r) ==
    \/ \A i \in 1..Len(r) : r[i].type \in {"word", "visualElement"}
    \/ \A i \in 1..Len(r) : r[i].type \in {"line", "visualElement"}
    \/ \A i \in 1..Len(r) : r[i].type \in PLayoutTypes

\* alias(elements): validation of the elements, then the after-validator
ConstructLayout(a, elements) ==
    IF (\A i \in 1..Len(elements) : elements[i].type \in AliasTypes(a))
       /\ validate_elements_type(elements)
    THEN [tag |-> "ok", root |-> elements]
    ELSE [tag |-> "ValidationError", root |-> <<>>]

\* Layout.__iadd__ with a single element and with a list
iadd_element(r, e) == Append(r, e)
iadd_list(r, es) == r \o es

\* list.index(element): 0 when the element is not in the list
ListIndex(r, e) ==
    IF \E i \in 1..Len(r) : r[i] = e
    THEN CHOOSE i \in 1..Len(r) : r[i] = e /\ \A j \in 1..(i - 1) : r[j] # e
    ELSE 0

\* Layout.replace_element
replace_element(r, element, new_element) ==
    [r EXCEPT ![ListIndex(r, element)] = new_element]

\* Layout.remove_table
remove_table(r) == SelectSeq(r, LAMBDA e : e.type \notin {"table", "tableContent"})

\* Layout.filter_empty_elements(keep_empty_image=True)
filter_empty_elements(r) ==
    SelectSeq(r, LAMBDA e :
        \/ e.type = "visualElement"
        \/ e.type = "image"
        \/ (e.type \notin {"table", "cell"} /\ e.content # <<>>))

(* ---------------------------------------------------------------------- *)
(* Specification SpecLayout: operations on one Layout object               *)
(* ---------------------------------------------------------------------- *)
MaxRoot == 3        \* elements held by the layout

LElem(t, p, a, b, c, d, k) ==
    [type |-> t, page |-> p, x0 |-> a, y0 |-> b, x1 |-> c, y1 |-> d, content |-> k]

\* elements handed to the operations
LayoutElements ==
    { LElem("word", 0, 0, 0, 20, 10, <<"w">>),
      LElem("line", 0, 0, 20, 100, 30, <<"w">>),
      LElem("text", 1, 0, 40, 200, 80, <<"w">>),
      LElem("text", 0, 0, 100, 200, 140, <<>>),
      LElem("table", 0, 0, 150, 200, 190, <<>>),
      LElem("visualElement", 1, 0, 0, 200, 2, <<>>) }

ElementLists ==
    UNION { [1..n -> LayoutElements] : n \in 1..2 }

InitLayout ==
    /\ alias \in {"WLayout", "LLayout", "PLayout"}
    /\ root = <<>>
    /\ raised = "-"
    /\ IdleOutsideLayout

\* layout = alias(elements)
NewLayout ==
    /\ \E a \in {"WLayout", "LLayout", "PLayout"}, es \in ElementLists \cup {<<>>} :
        \E r \in {ConstructLayout(a, es)} :
            IF r.tag = "ok"
            THEN alias' = a /\ root' = r.root /\ raised' = "-"
            ELSE raised' = r.tag /\ UNCHANGED <<alias, root>>
    /\ UNCHANGED OutsideLayout

\* layout += element
IAddElement ==
    /\ Len(root) < MaxRoot
    /\ \E e \in LayoutElements : root' = iadd_element(root, e)
    /\ raised' = "-"
    /\ UNCHANGED alias
    /\ UNCHANGED OutsideLayout

\* layout += [element, ...]
IAddList ==
    /\ \E es \in ElementLists :
          /\ Len(root) + Len(es) <= MaxRoot
          /\ root' = iadd_list(root, es)
    /\ raised' = "-"
    /\ UNCHANGED alias
    /\ UNCHANGED OutsideLayout

\* layout.replace_element(element, new_element)
ReplaceElement ==
    /\ \E e \in LayoutElements, n \in LayoutElements :
          IF ListIndex(root, e) = 0
          THEN raised' = "ValueError" /\ UNCHANGED root
          ELSE raised' = "-" /\ root' = replace_element(root, e, n)
    /\ UNCHANGED alias
    /\ UNCHANGED OutsideLayout

SortByBbox ==
    /\ root' = sort_by_bbox(root)
    /\ raised' = "-"
    /\ UNCHANGED alias
    /\ UNCHANGED OutsideLayout

SortByPage ==
    /\ root' = sort_by_page(root)
    /\ raised' = "-"
    /\ UNCHANGED alias
    /\ UNCHANGED OutsideLayout

FilterEmptyElements ==
    /\ root' = filter_empty_elements(root)
    /\ raised' = "-"
    /\ UNCHANGED alias
    /\ UNCHANGED OutsideLayout

RemoveTable ==
    /\ root' = remove_table(root)
    /\ raised' = "-"
    /\ UNCHANGED alias
    /\ UNCHANGED OutsideLayout

NextLayout ==
    \/ NewLayout
    \/ IAddElement
    \/ IAddList
    \/ ReplaceElement
    \/ SortByBbox
    \/ SortByPage
    \/ FilterEmptyElements
    \/ RemoveTable

SpecLayout == InitLayout /\ [][NextLayout]_vars

(* ---------------------------------------------------------------------- *)
(* Claims on SpecLayout                                                    *)
(* ---------------------------------------------------------------------- *)
\* C10: after any sequence of Layout operations (construction, += of an
\* element or a list, replace_element, sorting, filtering) all elements of
\* the layout belong to one family: Word + VisualElement, Line +
\* VisualElement, or Paragraph/Table + VisualElement.
C10_SingleFamily == validate_elements_type(root)

(* ---------------------------------------------------------------------- *)
(* layout/tatr_layout_extractor.py and TableContent.get_spanning_cells     *)
(* A cell is [x0, y0, x1, y1, label]; two cells are equal (pydantic ==)    *)
(* when all their fields are.                                              *)
(* ---------------------------------------------------------------------- *)
CellW == 40         \* width of a predicted column, in units of 1/One
CellH == 20         \* height of a predicted row

HeaderLabels == {"cell_header", "spanning_header"}
SpanningLabels == {"spanning_cell", "spanning_header"}

\* convert_to_cells: one cell per (row, column), row-major; the cells of a
\* row lying in a predicted header are labelled cell_header
convert_to_cells(g) ==
    [k \in 1..(g.rows * g.columns) |->
        LET n_row == (k - 1) \div g.columns
            n_col == (k - 1) % g.columns
        IN  [x0 |-> CellW * n_col, y0 |-> CellH * n_row,
             x1 |-> CellW * (n_col + 1), y1 |-> CellH * (n_row + 1),
             label |-> IF g.header /\ n_row = 0 THEN "cell_header" ELSE "cell"]]

\* Cell.create(..., label="spanning_cell") of one prediction
SpanningCell(span) ==
    LET r == create("Cell", span)
    IN  [tag |-> r.tag, x0 |-> r.box.x0, y0 |-> r.box.y0, x1 |-> r.box.x1, y1 |-> r.box.y1]

RECURSIVE SpanningCandidate(_, _, _, _)
\* metadata["spanning_candidate"] of a cell after the loop over the spans:
\* the index of the chosen span (0: none); overlap_threshold = 0.5
SpanningCandidate(cell, sps, k, best) ==
    IF k > Len(sps) THEN best
    ELSE LET sc == SpanningCell(sps[k])
             overlap == calculate_intersection_area(cell, sc)     \* times cell.area
             better ==
                /\ sc.tag = "ok"
                /\ 2 * overlap > Area(cell)
                /\ (best = 0 \/
                    overlap > calculate_intersection_area(cell, SpanningCell(sps[best])))
         IN  SpanningCandidate(cell, sps, k + 1, IF better THEN k ELSE best)

\* the label a spanning cell ends with: spanning_header as soon as one of
\* the cells it replaces is a header cell
SpanningLabel(cs, cand, k) ==
    IF \E i \in 1..Len(cs) : cand[i] = k /\ cs[i].label \in HeaderLabels
    THEN "spanning_header" ELSE "spanning_cell"

ReplaceBySpanning(cs, sps, cand) ==
    [i \in 1..Len(cs) |->
        IF cand[i] = 0 THEN cs[i]
        ELSE [x0 |-> SpanningCell(sps[cand[i]]).x0, y0 |-> SpanningCell(sps[cand[i]]).y0,
              x1 |-> SpanningCell(sps[cand[i]]).x1, y1 |-> SpanningCell(sps[cand[i]]).y1,
              label |-> SpanningLabel(cs, cand, cand[i])]]

\* convert_to_spanning_cells(cells, spans): cells after the call
convert_to_spanning_cells(cs, sps) ==
    ReplaceBySpanning(cs, sps, [i \in 1..Len(cs) |-> SpanningCandidate(cs[i], sps, 1, 0)])

\* 1 + the cells equal to cells[pos] that follow it without interruption
RECURSIVE ColSpan(_, _, _)
ColSpan(cs, pos, k) ==
    IF k <= Len(cs) /\ cs[k] = cs[pos] THEN 1 + ColSpan(cs, pos, k + 1) ELSE 1

\* self.cells.count(cell)
CellCount(cs, cell) == Cardinality({i \in 1..Len(cs) : cs[i] = cell})

RowSpan(nb_cell_iter, colspan) ==
    IF nb_cell_iter % colspan = 0 THEN nb_cell_iter \div colspan ELSE 1

RECURSIVE SpanningLoop(_, _, _, _, _)
\* the loop of get_spanning_cells from list position pos (1-based here; the
\* keys and skip positions it produces are the 0-based ones of the code)
SpanningLoop(cs, pos, spanning_cells, already_processed, skip_pos) ==
    IF pos > Len(cs) THEN [spanning_cells |-> spanning_cells, skip_pos |-> skip_pos]
    ELSE LET cell == cs[pos]
             seen == \E i \in 1..Len(already_processed) : already_processed[i] = cell
             colspan == ColSpan(cs, pos, pos + 1)
         IN  IF seen
             THEN SpanningLoop(cs, pos + 1, spanning_cells, already_processed,
                               Append(skip_pos, pos - 1))
             ELSE IF cell.label \in SpanningLabels
             THEN SpanningLoop(cs, pos + 1,
                      Append(spanning_cells,
                             [pos |-> pos - 1,
                              rowspan |-> RowSpan(CellCount(cs, cell), colspan),
                              colspan |-> colspan]),
                      Append(already_processed, cell), skip_pos)
             ELSE SpanningLoop(cs, pos + 1, spanning_cells, already_processed, skip_pos)

\* TableContent.get_spanning_cells
get_spanning_cells(cs) == SpanningLoop(cs, 1, <<>>, <<>>, <<>>)

(* ---------------------------------------------------------------------- *)
(* Specification SpecSpan: the cells of one table                          *)
(* ---------------------------------------------------------------------- *)
MaxRows == 3        \* predicted rows of the table
MaxColumns == 3     \* predicted columns of the table
MaxSpans == 2       \* spanning-cell predictions

\* predicted spanning boxes: on the grid lines, half a column in, or empty
SpanBoxes ==
    {b \in [x0 : {0, CellW \div 2, CellW}, y0 : {0, CellH},
            x1 : {CellW, 2 * CellW, 3 * CellW}, y1 : {CellH, 2 * CellH, 3 * CellH}] :
        b.x0 <= b.x1 /\ b.y0 < b.y1}

\* the predictions, sorted by (y0, x0) as _make_cells hands them over
SpanLists ==
    {sp \in UNION {[1..n -> SpanBoxes] : n \in 0..MaxSpans} :
        \A i \in 1..(Len(sp) - 1) :
            ~LexLess(<<sp[i + 1].y0, sp[i + 1].x0>>, <<sp[i].y0, sp[i].x0>>)}

InitSpan ==
    /\ grid \in [rows : 1..MaxRows, columns : 1..MaxColumns, header : BOOLEAN]
    /\ spans \in SpanLists
    /\ cells = convert_to_cells(grid)
    /\ converted = FALSE
    /\ spanning = NotComputed
    /\ IdleOutsideSpan

\* self.convert_to_spanning_cells(cells, spans, page_number)
ConvertToSpanningCells ==
    /\ ~converted
    /\ spanning = NotComputed
    /\ cells' = convert_to_spanning_cells(cells, spans)
    /\ converted' = TRUE
    /\ UNCHANGED <<grid, spans, spanning>>
    /\ UNCHANGED OutsideSpan

\* table.get_spanning_cells()
GetSpanningCells ==
    /\ spanning = NotComputed
    /\ spanning' = get_spanning_cells(cells)
    /\ UNCHANGED <<grid, spans, cells, converted>>
    /\ UNCHANGED OutsideSpan

NextSpan == ConvertToSpanningCells \/ GetSpanningCells

SpecSpan == InitSpan /\ [][NextSpan]_vars

(* ---------------------------------------------------------------------- *)
(* Claims on SpecSpan                                                      *)
(* ---------------------------------------------------------------------- *)
\* 0-based list positions of the block of r rows and c columns whose first
\* cell is at row r0, column c0 of the grid
BlockPositions(r0, c0, r, c) ==
    {(r0 + i) * grid.columns + c0 + j : i \in 0..(r - 1), j \in 0..(c - 1)}

\* the cell list repeats one spanning cell at every position of the block,
\* and nowhere else
IsSpanningBlock(r0, c0, r, c) ==
    LET first == cells[r0 * grid.columns + c0 + 1]
    IN  /\ first.label \in SpanningLabels
        /\ \A k \in 0..(Len(cells) - 1) :
                cells[k + 1] = first <=> k \in BlockPositions(r0, c0, r, c)

\* get_spanning_cells answers for the block: one entry, keyed by the first
\* position, of value (r, c), and the other positions in the skip list
BlockAnswer(r0, c0, r, c) ==
    LET first == r0 * grid.columns + c0
        entries == {i \in 1..Len(spanning.spanning_cells) :
                        spanning.spanning_cells[i].pos \in BlockPositions(r0, c0, r, c)}
        skipped == {spanning.skip_pos[i] : i \in 1..Len(spanning.skip_pos)}
    IN  /\ Cardinality(entries) = 1
        /\ \A i \in entries :
                spanning.spanning_cells[i] = [pos |-> first, rowspan |-> r, colspan |-> c]
        /\ skipped \cap BlockPositions(r0, c0, r, c) = BlockPositions(r0, c0, r, c) \ {first}
        /\ Cardinality(skipped \cap BlockPositions(r0, c0, r, c)) = r * c - 1

\* C9: for a table whose row-major cell list repeats one spanning cell at
\* every position of an r x c block of the grid (blocks as wide as the table
\* included), get_spanning_cells returns exactly one entry for that cell,
\* keyed by the block's first position, with value (rowspan = r, colspan = c),
\* and the skip list holds exactly the other r * c - 1 positions of the block.
C9_BlockSpans ==
    spanning # NotComputed =>
        \A r0 \in 0..(grid.rows - 1), c0 \in 0..(grid.columns - 1) :
            \A r \in 1..(grid.rows - r0), c \in 1..(grid.columns - c0) :
                IsSpanningBlock(r0, c0, r, c) => BlockAnswer(r0, c0, r, c)

(* ---------------------------------------------------------------------- *)
(* layout/utils.py: aggregation of the layouts of several extractors       *)
(* An element is [type, page, x0, y0, x1, y1, n_cells, extractor], n_cells *)
(* being len(cells or []).                                                 *)
(* ---------------------------------------------------------------------- *)
\* the elements of s at the positions of K, in order
Pick(s, K) ==
    LET f[i \in 0..Len(s)] ==
            IF i = 0 THEN <<>>
            ELSE IF i \in K THEN Append(f[i - 1], s[i]) ELSE f[i - 1]
    IN  f[Len(s)]

\* overlap_dict[position1] of filter_overlapping_paragraph
OverlapDict(elements, position1, num) ==
    {position2 \in 1..Len(elements) :
        /\ 0 < Area(elements[position1])
        /\ Area(elements[position1]) < Area(elements[position2])
        /\ elements[position1].type \in ParagraphTypes
        /\ elements[position2].type \in ParagraphTypes
        /\ Within(elements[position1], elements[position2], num, ThrDen)}

filter_overlapping_paragraph(elements, num) ==
    Pick(elements,
         {position \in 1..Len(elements) :
            ~(/\ OverlapDict(elements, position, num) # {}
              /\ ~(\A i \in OverlapDict(elements, position, num) :
                        OverlapDict(elements, i, num) # {}))})

filter_overlapping_paragraph_by_page(lay, num) ==
    sort_by_bbox(ConcatAll([p \in 1..page_count(lay) |->
        filter_overlapping_paragraph(get_elements_by_page(lay, p - 1), num)]))

\* isinstance(elem, (Table, TableContent, Image))
IsTableLike(e) == e.type \in TableTypes \cup {"image"}

\* add_idx: the first batch holding a table that elem is within (0: none)
AddIdx(tables_list, elem, num) ==
    LET hits == {idx \in 1..Len(tables_list) :
                    \E k \in 1..Len(tables_list[idx]) :
                        Within(elem, tables_list[idx][k], num, ThrDen)}
    IN  IF hits = {} THEN 0 ELSE CHOOSE idx \in hits : \A other_idx \in hits : idx <= other_idx

RECURSIVE BatchTables(_, _, _)
\* tables_list of one page: the tables and images in batches of overlapping ones
BatchTables(elements, tables_list, num) ==
    IF elements = <<>> THEN tables_list
    ELSE IF ~IsTableLike(Head(elements)) THEN BatchTables(Tail(elements), tables_list, num)
    ELSE IF AddIdx(tables_list, Head(elements), num) = 0
         THEN BatchTables(Tail(elements), Append(tables_list, <<Head(elements)>>), num)
         ELSE BatchTables(Tail(elements),
                  [tables_list EXCEPT ![AddIdx(tables_list, Head(elements), num)] =
                        Append(@, Head(elements))],
                  num)

\* tables.sort(key=(len(cells or []), area), reverse=True)[0]: the first of
\* the tables of greatest key (a reversed sort keeps equal items in order)
MostCells(tables) ==
    tables[CHOOSE i \in 1..Len(tables) :
        /\ \A j \in 1..Len(tables) :
              ~LexLess(<<tables[i].n_cells, Area(tables[i])>>,
                       <<tables[j].n_cells, Area(tables[j])>>)
        /\ \A j \in 1..(i - 1) :
              <<tables[j].n_cells, Area(tables[j])>> # <<tables[i].n_cells, Area(tables[i])>>]

\* what filter_tables keeps of one batch
KeptOfBatch(tables, nb_layout) ==
    IF \A k \in 1..Len(tables) : tables[k].type = "image" THEN tables
    ELSE IF \/ nb_layout = 1
            \/ tables[1].extractor = "yolov10"
            \/ \E k \in 1..Len(tables) :
                    tables[k].extractor # tables[1].extractor /\ tables[k].type # "image"
         THEN <<MostCells(SelectSeq(tables, LAMBDA t : t.type # "image"))>>
         ELSE <<>>

KeptOfPage(tables_list, nb_layout) ==
    ConcatAll([b \in 1..Len(tables_list) |-> KeptOfBatch(tables_list[b], nb_layout)])

\* filter_tables(layout, overlapping_threshold, nb_layout): layout.root after
filter_tables(lay, num, nb_layout) ==
    sort_by_bbox(
        ConcatAll([p \in 1..page_count(lay) |->
            SelectSeq(get_elements_by_page(lay, p - 1), LAMBDA e : ~IsTableLike(e))])
        \o
        ConcatAll([p \in 1..page_count(lay) |->
            KeptOfPage(BatchTables(get_elements_by_page(lay, p - 1), <<>>, num), nb_layout)]))

\* nb_layout: the layouts that are not empty
NbLayout(lays) == Cardinality({i \in 1..Len(lays) : lays[i] # <<>>})

\* aggregate_layouts(*layouts) with overlapping_threshold_paragraph = 0.25
\* and overlapping_threshold_table = 0.5
aggregate_layouts(lays) ==
    filter_overlapping_paragraph_by_page(
        filter_tables(
            ConcatAll([i \in 1..Len(lays) |-> filter_overlapping_paragraph_by_page(lays[i], 1)]),
            2, NbLayout(lays)),
        1)

(* ---------------------------------------------------------------------- *)
(* Specification SpecAggregate: two extractors' layouts of one page        *)
(* ---------------------------------------------------------------------- *)
MaxPerLayout == 2   \* elements of one extractor's layout

AElem(t, a, b, c, d, n) ==
    [type |-> t, page |-> 0, x0 |-> a, y0 |-> b, x1 |-> c, y1 |-> d,
     n_cells |-> n, extractor |-> "-"]

\* detections of one page
Detections ==
    { AElem("table", 0, 0, 200, 100, 6),  AElem("table", 0, 0, 200, 100, 9),
      AElem("table", 0, 0, 200, 80, 6),   AElem("table", 0, 0, 200, 80, 9),
      AElem("table", 0, 0, 100, 80, 6),   AElem("table", 0, 0, 100, 80, 9),
      AElem("image", 0, 0, 200, 100, 0),
      AElem("text", 0, 120, 200, 160, 0), AElem("text", 0, 120, 100, 140, 0) }

\* paragraphs of one line, each overlapping the next one by a quarter of
\* its area or more and no other: x in [0, 0.2], [0.15, 0.4], [0.3, 0.6],
\* [0.5, 1]
Paragraphs ==
    { AElem("text", 0, 120, 40, 140, 0),   AElem("text", 30, 120, 80, 140, 0),
      AElem("text", 60, 120, 120, 140, 0), AElem("text", 100, 120, 200, 140, 0) }

\* the layouts of distinct detections of D, at most MaxPerLayout of them
LayoutsOf(D) ==
    {q \in UNION {[1..n -> D] : n \in 0..MaxPerLayout} :
        \A i, j \in 1..Len(q) : i # j => q[i] # q[j]}

\* the layout of one extractor: its detections, sorted as an extractor's
\* layout is, each carrying the extractor's name
ExtractorLayouts(x) ==
    { [i \in 1..Len(s) |-> [s[i] EXCEPT !.extractor = x]] :
        s \in LayoutsOf(Detections) \cup LayoutsOf(Paragraphs) }

InitAggregate ==
    /\ \E x \in {"yolov10", "detectron2"}, y \in {"detectron2", "tatr"} :
        \E l1 \in ExtractorLayouts(x), l2 \in ExtractorLayouts(y) :
            layouts = <<l1, l2>>
    /\ merged = <<>>
    /\ called = "-"
    /\ IdleOutsideAggregate

\* merged_layout = aggregate_layouts(*layouts)
AggregateLayouts ==
    /\ called = "-"
    /\ merged' = aggregate_layouts(layouts)
    /\ called' = "aggregate_layouts"
    /\ UNCHANGED layouts
    /\ UNCHANGED OutsideAggregate

\* filter_tables(layout, 0.5) on the first layout alone (nb_layout = 1)
FilterTables ==
    /\ called = "-"
    /\ merged' = filter_tables(layouts[1], 2, 1)
    /\ called' = "filter_tables"
    /\ UNCHANGED layouts
    /\ UNCHANGED OutsideAggregate

\* filter_overlapping_paragraph_by_page(layout, 0.25) on the elements of both
\* layouts taken as one layout
FilterOverlappingParagraph ==
    /\ called = "-"
    /\ merged' = filter_overlapping_paragraph_by_page(layouts[1] \o layouts[2], 1)
    /\ called' = "filter_overlapping_paragraph_by_page"
    /\ UNCHANGED layouts
    /\ UNCHANGED OutsideAggregate

NextAggregate == AggregateLayouts \/ FilterTables \/ FilterOverlappingParagraph

SpecAggregate == InitAggregate /\ [][NextAggregate]_vars

(* ---------------------------------------------------------------------- *)
(* Claims on SpecAggregate                                                 *)
(* ---------------------------------------------------------------------- *)
InLayout(e, lay) == \E i \in 1..Len(lay) : lay[i] = e

\* t1 and t2 are the only table or image detections handed over, one per
\* layout, from two different extractors
TwoDetections(t1, t2) ==
    /\ InLayout(t1, layouts[1]) /\ InLayout(t2, layouts[2])
    /\ t1.type = "table" /\ t2.type = "table"
    /\ t1.extractor # t2.extractor
    /\ \A k \in 1..2 : \A i \in 1..Len(layouts[k]) :
            IsTableLike(layouts[k][i]) => layouts[k][i] \in {t1, t2}

\* the intersection is at least overlap_threshold_table of the area of one
OverlapOfOne(t1, t2) == Within(t1, t2, 2, ThrDen) \/ Within(t2, t1, 2, ThrDen)

Preferred(t, u) ==
    ~LexLess(<<t.n_cells, Area(t)>>, <<u.n_cells, Area(u)>>)

\* exactly one of the two is kept, and it is one with more cells or, on
\* equal cell counts, with the larger area
KeepsPreferred(t1, t2) ==
    /\ InLayout(t1, merged) # InLayout(t2, merged)
    /\ InLayout(t1, merged) => Preferred(t1, t2)
    /\ InLayout(t2, merged) => Preferred(t2, t1)

\* C8 (as stated): when one table of a page is detected by two different
\* extractors and the two detections overlap by at least
\* overlap_threshold_table of the area of one of them, aggregate_layouts keeps
\* exactly one of the two: the one with more cells, on equal cell counts the
\* one with the larger area, whichever layout was passed first.
C8_KeepsMoreCells ==
    called = "aggregate_layouts" =>
        \A t1 \in Detections, t2 \in Detections :
            \A x1 \in {"yolov10", "detectron2"}, x2 \in {"detectron2", "tatr"} :
                (/\ TwoDetections([t1 EXCEPT !.extractor = x1], [t2 EXCEPT !.extractor = x2])
                 /\ OverlapOfOne(t1, t2))
                => KeepsPreferred([t1 EXCEPT !.extractor = x1], [t2 EXCEPT !.extractor = x2])

(* ---------------------------------------------------------------------- *)
(* Words, cells and the structural elements that carry content             *)
(*   word     [type, page, x0, y0, x1, y1, content]: content is its text   *)
(*   line     [type, page, x0, y0, x1, y1, content]: content is its words  *)
(*   cell     [x0, y0, x1, y1, page, label]: label "-" when metadata has   *)
(*            none                                                         *)
(*   element  [type, page, x0, y0, x1, y1, inferred, content, cells_none,  *)
(*            cells, rows, pages, bboxes]                                  *)
(*            content     Paragraph.content, the words                     *)
(*            cells_none  Table.cells is None                              *)
(*            rows        TableContent.content: rows of cell texts, the    *)
(*                        text of a cell being the texts of its words in   *)
(*                        order (joined by " " in the source)              *)
(*            pages, bboxes  metadata["pages"], metadata["bboxes"]; <<>>   *)
(*                        when the keys are absent                         *)
(* ---------------------------------------------------------------------- *)
PWord(t, p, a, b, c, d) ==
    [type |-> "word", page |-> p, x0 |-> a, y0 |-> b, x1 |-> c, y1 |-> d, content |-> t]

PCell(p, a, b, c, d, l) ==
    [x0 |-> a, y0 |-> b, x1 |-> c, y1 |-> d, page |-> p, label |-> l]

PElem(t, p, a, b, c, d) ==
    [type |-> t, page |-> p, x0 |-> a, y0 |-> b, x1 |-> c, y1 |-> d,
     inferred |-> FALSE, content |-> <<>>, cells_none |-> TRUE, cells |-> <<>>,
     rows |-> <<>>, pages |-> <<>>, bboxes |-> <<>>]

BoxOf(e) == [x0 |-> e.x0, y0 |-> e.y0, x1 |-> e.x1, y1 |-> e.y1]

SetMin(S) == CHOOSE m \in S : \A x \in S : m <= x

\* list.insert(pos - 1, x) in Python's 0-based positions
InsertAt(s, pos, x) == SubSeq(s, 1, pos - 1) \o <<x>> \o SubSeq(s, pos, Len(s))

(* ---------------------------------------------------------------------- *)
(* extract/process_table.py                                                *)
(* Words are rounded to 3 decimals before the split: coordinates here are  *)
(* multiples of 1/One = 0.005, which the rounding leaves as they are; the  *)
(* coordinates of words and tables are multiples of 4, so the middle of a  *)
(* space interval is exact.                                                *)
(* ---------------------------------------------------------------------- *)
\* what process_table.split_interval does with one interval
SplitAroundWord(interval, x0, x1) ==
    IF x0 <= interval[1] /\ interval[1] <= x1 /\ x0 <= interval[2] /\ interval[2] <= x1
    THEN <<>>
    ELSE IF interval[1] <= x0 /\ x0 <= interval[2] /\ interval[1] <= x1 /\ x1 <= interval[2]
    THEN << <<interval[1], x0>>, <<x1, interval[2]>> >>
    ELSE IF interval[1] <= x0 /\ x0 <= interval[2]
    THEN << <<interval[1], x0>> >>
    ELSE IF interval[1] <= x1 /\ x1 <= interval[2]
    THEN << <<x1, interval[2]>> >>
    ELSE <<interval>>

\* process_table.split_interval(interval_list, x0, x1)
split_interval_list(interval_list, x0, x1) ==
    ConcatAll([k \in 1..Len(interval_list) |-> SplitAroundWord(interval_list[k], x0, x1)])

RECURSIVE SpaceIntervals(_, _, _)
\* detect_space: the intervals left once split around every word
SpaceIntervals(intervals, words, axis) ==
    IF words = <<>> THEN intervals
    ELSE SpaceIntervals(
            IF axis = "x"
            THEN split_interval_list(intervals, Head(words).x0, Head(words).x1)
            ELSE split_interval_list(intervals, Head(words).y0, Head(words).y1),
            Tail(words), axis)

\* the middle of each space interval
Middles(intervals) ==
    [k \in 1..Len(intervals) |->
        intervals[k][1] + (intervals[k][2] - intervals[k][1]) \div 2]

\* detect_space(element, words): the middles on x and on y
detect_space(element, words) ==
    [x |-> Middles(SpaceIntervals(
                << <<SeqMin(Append([k \in 1..Len(words) |-> words[k].x0], element.x0)),
                     SeqMax(Append([k \in 1..Len(words) |-> words[k].x1], element.x1))>> >>,
                words, "x")),
     y |-> Middles(SpaceIntervals(
                << <<SeqMin(Append([k \in 1..Len(words) |-> words[k].y0], element.y0)),
                     SeqMax(Append([k \in 1..Len(words) |-> words[k].y1], element.y1))>> >>,
                words, "y"))]

\* build_cells: the element's bound put in front of, and behind, the spaces
WithLower(spaces, lo) ==
    IF spaces # <<>> /\ spaces[1] > lo THEN <<lo>> \o spaces ELSE spaces
WithUpper(spaces, hi) ==
    IF spaces # <<>> /\ spaces[Len(spaces)] < hi THEN Append(spaces, hi) ELSE spaces

\* build_cells: the cells between consecutive spaces, row by row
CellsBetween(col_spaces, row_spaces, page) ==
    ConcatAll([row \in 1..(Len(row_spaces) - 1) |->
        ConcatAll([col \in 1..(Len(col_spaces) - 1) |->
            IF create("Cell", [x0 |-> col_spaces[col], y0 |-> row_spaces[row],
                               x1 |-> col_spaces[col + 1], y1 |-> row_spaces[row + 1]]).tag = "ok"
            THEN <<PCell(page, col_spaces[col], row_spaces[row],
                         col_spaces[col + 1], row_spaces[row + 1], "-")>>
            ELSE <<>>])])

CellsFromSpaces(element, spaces) ==
    CellsBetween(WithUpper(WithLower(spaces.x, element.x0), element.x1),
                 WithUpper(WithLower(spaces.y, element.y0), element.y1),
                 element.page)

\* build_cells(element, table_content): element.cells afterwards
build_cells(element, table_content) ==
    CellsFromSpaces(element, detect_space(element, table_content))

ContentsOf(words) == [k \in 1..Len(words) |-> words[k].content]

\* the text of one cell: the words within the cell at threshold_word
CellText(cell, table_content, num) ==
    ContentsOf(SelectSeq(table_content, LAMBDA word : Within(word, cell, num, ThrDen)))

RECURSIVE TableRows(_, _, _, _, _, _)
\* the loop of make_table_content over the cells: a new line when the cell's
\* x1 is not beyond the previous cell's, unless it is the same cell; the last
\* line is kept only if one of its texts is not empty
TableRows(cs, n_cell, table_content, num, content, line) ==
    IF n_cell > Len(cs)
    THEN IF line # <<>> /\ \E k \in 1..Len(line) : line[k] # <<>>
         THEN Append(content, line) ELSE content
    ELSE IF n_cell > 1 /\ cs[n_cell] # cs[n_cell - 1] /\ cs[n_cell].x1 <= cs[n_cell - 1].x1
         THEN TableRows(cs, n_cell + 1, table_content, num, Append(content, line),
                        <<CellText(cs[n_cell], table_content, num)>>)
         ELSE TableRows(cs, n_cell + 1, table_content, num, content,
                        Append(line, CellText(cs[n_cell], table_content, num)))

\* make_table_content(element, table_content, threshold_word): the new
\* TableContent, or None
make_table_content(element, table_content, num) ==
    IF create("TableContent", BoxOf(element)).tag # "ok" \/ element.cells_none
    THEN [tag |-> "None", element |-> element]
    ELSE [tag |-> "ok",
          element |-> [element EXCEPT !.type = "tableContent",
                          !.rows = TableRows(element.cells, 1, table_content, num, <<>>, <<>>)]]

(* ---------------------------------------------------------------------- *)
(* schemas/elements.py: TableContent; enrichment: joining tables over pages*)
(* ---------------------------------------------------------------------- *)
\* TableContent.nb_columns
nb_columns(t) == IF t.rows = <<>> THEN 0 ELSE Len(t.rows[1])

\* TableContent.first_row_is_header
first_row_is_header(t) ==
    IF t.rows = <<>> \/ t.cells = <<>> THEN FALSE
    ELSE \A k \in 1..Min2(nb_columns(t), Len(t.cells)) : t.cells[k].label \in HeaderLabels

\* TableContent.merge_element(other), other being next_elem: self afterwards
merge_element(self, next_elem) ==
    [self EXCEPT
        !.cells = IF self.cells_none \/ next_elem.cells_none THEN <<>> ELSE self.cells \o next_elem.cells,
        !.cells_none = self.cells_none \/ next_elem.cells_none,
        !.rows = self.rows \o next_elem.rows,
        !.pages = (IF create("Bbox", BoxOf(self)).tag = "ok" /\ self.pages = <<>>
                   THEN <<self.page>> ELSE self.pages)
                  \o (IF create("Bbox", BoxOf(next_elem)).tag = "ok" THEN <<next_elem.page>> ELSE <<>>),
        !.bboxes = (IF create("Bbox", BoxOf(self)).tag = "ok" /\ self.bboxes = <<>>
                    THEN <<BoxOf(self)>> ELSE self.bboxes)
                   \o (IF create("Bbox", BoxOf(next_elem)).tag = "ok" THEN <<BoxOf(next_elem)>> ELSE <<>>)]

RECURSIVE ScanCandidate(_, _, _, _)
\* get_next_candidate_position: the position of the next element that is
\* neither Extra, visual nor inferred (0: None); inferred elements may be
\* skipped only if an Extra element is skipped too
ScanCandidate(lay, k, skipped_extra, skipped_inferred) ==
    IF k > Len(lay) THEN 0
    ELSE IF lay[k].type \notin ExtraTypes \cup {"visualElement"} /\ ~lay[k].inferred
         THEN IF skipped_inferred /\ ~skipped_extra THEN 0 ELSE k
         ELSE ScanCandidate(lay, k + 1,
                            skipped_extra \/ lay[k].type \in ExtraTypes,
                            skipped_inferred \/ lay[k].inferred)

get_next_candidate_position(position, lay) == ScanCandidate(lay, position + 1, FALSE, FALSE)

\* is_cutting_a_cell with tolerance_threshold = column_boundaries_tolerance
\* = 0.25: every term is multiplied by 4
is_cutting_a_cell(current_cell, cell_list, x_offset_current, x_offset_list) ==
    \E k \in 1..Len(cell_list) :
        /\ cell_list[k].label \notin SpanningLabels
        /\ \/ /\ 4 * (cell_list[k].x0 - x_offset_list) + (cell_list[k].x1 - cell_list[k].x0)
                    < 4 * (current_cell.x0 - x_offset_current)
              /\ 4 * (current_cell.x0 - x_offset_current)
                    < 4 * (cell_list[k].x1 - x_offset_list) - (cell_list[k].x1 - cell_list[k].x0)
           \/ /\ 4 * (cell_list[k].x0 - x_offset_list) + (cell_list[k].x1 - cell_list[k].x0)
                    < 4 * (current_cell.x1 - x_offset_current)
              /\ 4 * (current_cell.x1 - x_offset_current)
                    < 4 * (cell_list[k].x1 - x_offset_list) - (cell_list[k].x1 - cell_list[k].x0)

\* cells[-n:] and cells[:n] of Python
LastCells(cs, n) == IF n = 0 \/ n >= Len(cs) THEN cs ELSE SubSeq(cs, Len(cs) - n + 1, Len(cs))
FirstCells(cs, n) == SubSeq(cs, 1, Min2(n, Len(cs)))

RowsMatching(table1_row, table2_row) ==
    /\ \A k \in 1..Len(table1_row) :
          ~is_cutting_a_cell(table1_row[k], table2_row, table1_row[1].x0, table2_row[1].x0)
    /\ \A k \in 1..Len(table2_row) :
          ~is_cutting_a_cell(table2_row[k], table1_row, table2_row[1].x0, table1_row[1].x0)

\* columns_matching(table1, table2, 0.25): "true", "false", or the
\* IndexError of table_row[0] on an empty list of cells
columns_matching(table1, table2) ==
    IF table1.cells_none \/ table2.cells_none THEN "false"
    ELSE IF table1.cells = <<>> \/ FirstCells(table2.cells, nb_columns(table2)) = <<>>
    THEN "IndexError"
    ELSE IF RowsMatching(LastCells(table1.cells, nb_columns(table1)),
                         FirstCells(table2.cells, nb_columns(table2)))
    THEN "true" ELSE "false"

\* the condition of join_table_overlapping_pages on an element and its
\* candidate, evaluated left to right: "true", "false" or "IndexError"
JoinCondition(element, next_elem) ==
    IF next_elem.type # "tableContent" THEN "false"
    ELSE IF next_elem.page # element.page + 1 THEN "false"
    ELSE IF nb_columns(element) # nb_columns(next_elem) THEN "false"
    ELSE IF element.rows = <<>> \/ next_elem.rows = <<>> THEN "IndexError"
    ELSE IF element.rows[1] = next_elem.rows[1] THEN "false"
    ELSE IF first_row_is_header(next_elem) THEN "false"
    ELSE columns_matching(element, next_elem)

RECURSIVE JoinLoop(_, _, _)
\* the loop of join_table_overlapping_pages: [root, remove_index, raised]
JoinLoop(lay, current_elem, remove_index) ==
    IF current_elem > Len(lay)
    THEN [root |-> lay, remove_index |-> remove_index, raised |-> "-"]
    ELSE IF current_elem \in remove_index \/ lay[current_elem].type # "tableContent"
            \/ get_next_candidate_position(current_elem, lay) = 0
    THEN JoinLoop(lay, current_elem + 1, remove_index)
    ELSE IF JoinCondition(lay[current_elem],
                          lay[get_next_candidate_position(current_elem, lay)]) = "IndexError"
    THEN [root |-> lay, remove_index |-> remove_index, raised |-> "IndexError"]
    ELSE IF JoinCondition(lay[current_elem],
                          lay[get_next_candidate_position(current_elem, lay)]) = "true"
    THEN JoinLoop([lay EXCEPT ![current_elem] =
                        merge_element(@, lay[get_next_candidate_position(current_elem, lay)])],
                  current_elem + 1,
                  remove_index \cup {get_next_candidate_position(current_elem, lay)})
    ELSE JoinLoop(lay, current_elem + 1, remove_index)

\* the elements at remove_index popped
WithoutRemoved(r) ==
    [root |-> Pick(r.root, {k \in 1..Len(r.root) : k \notin r.remove_index}),
     raised |-> r.raised]

\* join_table_overlapping_pages(layout): layout.root afterwards and the
\* exception raised ("-": none; the elements are not popped when it raises)
join_table_overlapping_pages(lay) ==
    IF JoinLoop(lay, 1, {}).raised = "-"
    THEN WithoutRemoved(JoinLoop(lay, 1, {}))
    ELSE [root |-> JoinLoop(lay, 1, {}).root, raised |-> JoinLoop(lay, 1, {}).raised]

(* ---------------------------------------------------------------------- *)
(* Specification SpecJoin: two tables of a document, populated from the    *)
(* words of their cells, then joined over the page break                   *)
(* ---------------------------------------------------------------------- *)
JoinMaxRows == 2    \* rows of the grid of a table

\* the widths of the columns of the grids
JoinWidths == { <<80>>, <<40, 40>> }
OtherWidths == <<20, 60>>

SumTo(widths, n) == IF n = 0 THEN 0 ELSE IF n = 1 THEN widths[1] ELSE widths[1] + widths[2]

\* the cells of a grid at the top left of the page, row by row
GridOf(p, n_rows, widths, header) ==
    [k \in 1..(n_rows * Len(widths)) |->
        PCell(p, SumTo(widths, (k - 1) % Len(widths)), CellH * ((k - 1) \div Len(widths)),
              SumTo(widths, ((k - 1) % Len(widths)) + 1), CellH * (((k - 1) \div Len(widths)) + 1),
              IF header /\ k <= Len(widths) THEN "cell_header" ELSE "cell")]

\* the Table a layout extractor and TATR give: its box and its cells
GridTable(p, n_rows, widths, header) ==
    [PElem("table", p, 0, 0, SumTo(widths, Len(widths)), CellH * n_rows)
        EXCEPT !.cells_none = FALSE, !.cells = GridOf(p, n_rows, widths, header)]

\* the texts written in the cells of a grid: "" for an empty cell; the
\* second row holds "a" or nothing
GridTexts(n_rows, n_columns) ==
    {f \in [1..(n_rows * n_columns) -> {"", "a", "b"}] :
        \A k \in 1..(n_rows * n_columns) : k > n_columns => f[k] # "b"}

\* one OCR word in the middle of each cell that has a text
GridWords(cs, texts) ==
    ConcatAll([k \in 1..Len(cs) |->
        IF texts[k] = "" THEN <<>>
        ELSE <<PWord(texts[k], cs[k].page, cs[k].x0 + 4, cs[k].y0 + 4, cs[k].x1 - 4, cs[k].y1 - 4)>>])

\* the TableContent populate_table makes of a grid and its words
\* (threshold_word_in_table = 0.5)
Populated(table, texts) ==
    make_table_content(table, GridWords(table.cells, texts), 2).element

FirstTables ==
    { Populated(GridTable(0, n, w, FALSE), t) :
        <<n, w, t>> \in { q \in (1..JoinMaxRows) \X JoinWidths
                                    \X UNION {GridTexts(n, c) : n \in 1..JoinMaxRows, c \in 1..2} :
                            q[3] \in GridTexts(q[1], Len(q[2])) } }

NextTables(p) ==
    { Populated(GridTable(p, n, w, h), t) :
        <<n, w, h, t>> \in { q \in (1..JoinMaxRows) \X (JoinWidths \cup {OtherWidths}) \X BOOLEAN
                                    \X UNION {GridTexts(n, c) : n \in 1..JoinMaxRows, c \in 1..2} :
                                /\ q[4] \in GridTexts(q[1], Len(q[2]))
                                /\ q[2] = OtherWidths => q[1] = 1 } }

\* the tables a second table is drawn from, by page
NextTablesOf == [p \in 1..2 |-> NextTables(p)]

\* what may stand between the two tables in the layout
Between == { <<>>, <<PElem("footer", 0, 0, 180, 200, 196)>> }

InitJoin ==
    /\ \E first \in FirstTables, p \in 1..2, b \in Between :
        \E next \in NextTablesOf[p] :
            join_layout = <<first>> \o b \o <<next>>
    /\ join_before = NotJoined
    /\ join_raised = "-"
    /\ IdleOutsideJoin

\* LayoutModifier.join_table_overlapping_pages(layout)
JoinTableOverlappingPages ==
    /\ join_before = NotJoined
    /\ \E r \in {join_table_overlapping_pages(join_layout)} :
          /\ join_layout' = r.root
          /\ join_raised' = r.raised
    /\ join_before' = join_layout
    /\ UNCHANGED OutsideJoin

\* first.merge_element(next) called on the two tables, whatever they are
MergeElement ==
    /\ join_before = NotJoined
    /\ join_layout' = <<merge_element(join_layout[1], join_layout[Len(join_layout)])>>
    /\ join_raised' = "merge_element"
    /\ join_before' = join_layout
    /\ UNCHANGED OutsideJoin

NextJoin == JoinTableOverlappingPages \/ MergeElement

SpecJoin == InitJoin /\ [][NextJoin]_vars

(* ---------------------------------------------------------------------- *)
(* Claims on SpecJoin                                                      *)
(* ---------------------------------------------------------------------- *)
\* join_table_overlapping_pages has merged the two tables of the layout
HasJoined ==
    /\ join_before # NotJoined
    /\ join_raised = "-"
    /\ Len(join_layout) < Len(join_before)

\* the two row sets a split of the merged element gives when the content is
\* cut behind row k and the cells behind cell j, each with the page and the
\* box the merged element recorded for it
SplitAt(m, k, j) ==
    [first |-> [PElem("tableContent", m.pages[1], m.bboxes[1].x0, m.bboxes[1].y0,
                      m.bboxes[1].x1, m.bboxes[1].y1)
                  EXCEPT !.cells_none = FALSE, !.cells = SubSeq(m.cells, 1, j),
                         !.rows = SubSeq(m.rows, 1, k)],
     next |-> [PElem("tableContent", m.pages[2], m.bboxes[2].x0, m.bboxes[2].y0,
                     m.bboxes[2].x1, m.bboxes[2].y1)
                  EXCEPT !.cells_none = FALSE, !.cells = SubSeq(m.cells, j + 1, Len(m.cells)),
                         !.rows = SubSeq(m.rows, k + 1, Len(m.rows))]]

\* a pair of tables of a document that join_table_overlapping_pages joins
Joinable(s) ==
    /\ s.first \in FirstTables
    /\ s.next.page \in DOMAIN NextTablesOf /\ s.next \in NextTablesOf[s.next.page]
    /\ JoinCondition(s.first, s.next) = "true"

\* C6: for two TableContent elements that satisfy the join preconditions, the
\* element join_table_overlapping_pages produces records enough to split it
\* again at the page boundary, the split giving back exactly the two original
\* row sets (content and cells): the merged element has one split only into
\* two tables that satisfy the preconditions, the two it was made of.
C6_MergeReversible ==
    HasJoined =>
        \A k \in 0..Len(join_layout[1].rows), j \in 0..Len(join_layout[1].cells) :
            Joinable(SplitAt(join_layout[1], k, j)) =>
                /\ SplitAt(join_layout[1], k, j).first.rows = join_before[1].rows
                /\ SplitAt(join_layout[1], k, j).first.cells = join_before[1].cells
                /\ SplitAt(join_layout[1], k, j).next.rows = join_before[Len(join_before)].rows
                /\ SplitAt(join_layout[1], k, j).next.cells = join_before[Len(join_before)].cells

(* ---------------------------------------------------------------------- *)
(* extract/utils.py: the tables of a layout populated with OCR words       *)
(* The OCR layout is a Layout[Line]: a list of lines, each with its words  *)
(* in content, and of visual elements. The text of a word is the sequence  *)
(* of its characters.                                                      *)
(* ---------------------------------------------------------------------- *)
\* get_word_list(ocr) on the elements of a page: the words, line by line
get_word_list(ocr_page) ==
    IF ocr_page = <<>> THEN << <<>> >>
    ELSE ContentsOf(SelectSeq(ocr_page, LAMBDA e : e.type = "line"))

\* populate_table: table_content, the words of the page within the element
\* at threshold_word, in the order of the lines
WordsWithin(ocr_page, element, num) ==
    SelectSeq(ConcatAll(get_word_list(ocr_page)),
              LAMBDA w : Within(w, element, num, ThrDen))

\* pop_words_from_ocr(ocr_page, to_pop), to_pop being the coordinates of the
\* words populate_table found within the element: they leave their lines
pop_words_from_ocr(ocr, element, num) ==
    [k \in 1..Len(ocr) |->
        IF ocr[k].type = "line" /\ ocr[k].page = element.page
        THEN [ocr[k] EXCEPT !.content =
                SelectSeq(@, LAMBDA w : ~Within(w, element, num, ThrDen))]
        ELSE ocr[k]]

\* populate_table: the element after `if not element.cells: build_cells(...)`
WithCells(element, table_content) ==
    IF element.cells_none \/ element.cells = <<>>
    THEN [element EXCEPT !.cells_none = FALSE, !.cells = build_cells(element, table_content)]
    ELSE element

\* populate_table: the new element replaces the element if it is not None
ReplaceByContent(r, element, made) ==
    IF made.tag = "ok" THEN replace_element(r, element, made.element) ELSE r

\* populate_table(layout, element, ocr, threshold_word), the element being at
\* `position` of layout.root: layout.root afterwards
populate_table(r, position, table_content, num) ==
    ReplaceByContent([r EXCEPT ![position] = WithCells(@, table_content)],
                     WithCells(r[position], table_content),
                     make_table_content(WithCells(r[position], table_content),
                                        table_content, num))

\* populate_tables: the positions of the Table elements, page after page
TablePositions(r) ==
    SortedBy(SelectSeq([k \in 1..Len(r) |-> k], LAMBDA k : r[k].type = "table"),
             [i \in 1..Len(SelectSeq([k \in 1..Len(r) |-> k], LAMBDA k : r[k].type = "table")) |->
                <<r[SelectSeq([k \in 1..Len(r) |-> k], LAMBDA k : r[k].type = "table")[i]].page>>])

RECURSIVE TablesLoop(_, _, _, _)
\* the loop of populate_tables over the tables: [root, ocr] afterwards
TablesLoop(r, ocr, positions, num) ==
    IF positions = <<>> THEN [root |-> r, ocr |-> ocr]
    ELSE TablesLoop(
            populate_table(r, Head(positions),
                           WordsWithin(get_elements_by_page(ocr, r[Head(positions)].page),
                                       r[Head(positions)], num),
                           num),
            pop_words_from_ocr(ocr, r[Head(positions)], num),
            Tail(positions), num)

\* populate_tables(layout_ocr, layout, pop_words=True, threshold_word)
populate_tables(ocr, r, num) == TablesLoop(r, ocr, TablePositions(r), num)

(* ---------------------------------------------------------------------- *)
(* structuration/utils.py: the paragraphs populated with the OCR words     *)
(* Elements and words of a document are pairwise different, so the         *)
(* equality list.index and list.remove look for finds the object itself.   *)
(* ---------------------------------------------------------------------- *)
\* layout is None
NoLayout == <<[type |-> "None"]>>

\* columns_by_page[page] when there is one, [] otherwise
ColumnsOfPage(cbp, page) == IF Len(cbp) > page THEN cbp[page + 1] ELSE <<>>

no_visual_elements_between_elements(element, next_element, visual_elements) ==
    ~\E k \in 1..Len(visual_elements) :
        /\ match_interval(<<element.x0, element.x1>>,
                          <<visual_elements[k].x0, visual_elements[k].x1>>)
        /\ match_interval(<<next_element.x0, next_element.x1>>,
                          <<visual_elements[k].x0, visual_elements[k].x1>>)
        /\ element.y1 < visual_elements[k].y0
        /\ visual_elements[k].y0 < next_element.y0

no_columns_between_elements(element, next_element, cols) ==
    ~\E k \in 1..Len(cols) :
        /\ match_interval(<<element.y0, element.y1>>, <<cols[k][2], cols[k][3]>>)
        /\ match_interval(<<next_element.y0, next_element.y1>>, <<cols[k][2], cols[k][3]>>)
        /\ element.x1 < cols[k][1]
        /\ cols[k][1] < next_element.x0

DigitChars == {"0", "1", "2", "3", "4", "5", "6", "7", "8", "9"}

RECURSIVE DigitsEnd(_, _)
\* the position behind the digits that start at position k of a text
DigitsEnd(text, k) ==
    IF k <= Len(text) /\ text[k] \in DigitChars THEN DigitsEnd(text, k + 1) ELSE k

\* REGEX_CHAPTERS: re.compile(r"^\d+(\.\d+)+").match(text)
regex_chapters(text) ==
    /\ DigitsEnd(text, 1) > 1
    /\ DigitsEnd(text, 1) + 1 <= Len(text)
    /\ text[DigitsEnd(text, 1)] = "."
    /\ text[DigitsEnd(text, 1) + 1] \in DigitChars

\* mutant: the word goes to the first paragraph it touches, whatever the ratio
append_word_to_paragraph_touching(r, page, w, num) ==
    IF \E k \in 1..Len(r) : /\ r[k].page = page /\ r[k].type \in ParagraphTypes
                            /\ calculate_intersection_area(w, r[k]) > 0
    THEN SetMin({k \in 1..Len(r) : /\ r[k].page = page /\ r[k].type \in ParagraphTypes
                                   /\ calculate_intersection_area(w, r[k]) > 0})
    ELSE 0

\* append_word_to_paragraph(layout_page, word, threshold_word): the position
\* in layout.root of the paragraph the word is appended to (0: None)
append_word_to_paragraph(r, page, w, num) ==
    IF \E k \in 1..Len(r) : /\ r[k].page = page /\ r[k].type \in ParagraphTypes
                            /\ Within(w, r[k], num, ThrDen)
    THEN SetMin({k \in 1..Len(r) : /\ r[k].page = page /\ r[k].type \in ParagraphTypes
                                   /\ Within(w, r[k], num, ThrDen)})
    ELSE 0

\* append_word_anticipating_next_words: the pairs (next word, element) whose
\* element the word may be appended to
AnticipatedPairs(r, page, cols, text_line, n_word, num, chapters) ==
    {p \in (n_word..Len(text_line)) \X (1..Len(r)) :
        /\ r[p[2]].page = page
        /\ r[p[2]].type \in ParagraphTypes
        /\ Within(text_line[p[1]], r[p[2]], num, ThrDen)
        /\ \/ no_columns_between_elements(text_line[n_word], text_line[p[1]], cols)
           \/ chapters /\ regex_chapters(text_line[n_word].content)}

\* the first of the pairs in the order of the two loops: its element (0: None)
FirstPair(pairs) ==
    IF pairs = {} THEN 0
    ELSE (CHOOSE p \in pairs : \A q \in pairs : p = q \/ LexLess(p, q))[2]

append_word_anticipating_next_words(r, page, cols, text_line, n_word, num, chapters) ==
    FirstPair(AnticipatedPairs(r, page, cols, text_line, n_word, num, chapters))

\* the word appended to an element of the layout or to a new paragraph, which
\* becomes prev_element
AppendTo(S, target, w) ==
    IF target[1] = "root"
    THEN [S EXCEPT !.root[target[2]].content = Append(@, w), !.prev = target]
    ELSE [S EXCEPT !.new[target[2]].content = Append(@, w), !.prev = target]

\* Text.create(x0=word.x0, ..., content=[word], page=page, inferred=True)
InferredText(w, page) ==
    [PElem("text", page, w.x0, w.y0, w.x1, w.y1) EXCEPT !.inferred = TRUE, !.content = <<w>>]

\* one turn of the loop of populate_paragraphs over the words of a line;
\* S is [root, new, prev]: layout.root, new_paragraphs and prev_element
\* (<<>>: None, else where the element is)
WordStep(S, page, cols, text_line, n_word, num, chapters) ==
    IF append_word_to_paragraph(S.root, page, text_line[n_word], num) # 0
    THEN AppendTo(S, <<"root", append_word_to_paragraph(S.root, page, text_line[n_word], num)>>,
                  text_line[n_word])
    ELSE IF /\ S.prev # <<>>
            /\ no_columns_between_elements(text_line[n_word - 1], text_line[n_word], cols)
    THEN AppendTo(S, S.prev, text_line[n_word])
    ELSE IF append_word_anticipating_next_words(S.root, page, cols, text_line, n_word,
                                                num, chapters) # 0
    THEN AppendTo(S, <<"root", append_word_anticipating_next_words(
                                    S.root, page, cols, text_line, n_word, num, chapters)>>,
                  text_line[n_word])
    ELSE IF create("Text", BoxOf(text_line[n_word])).tag = "ok"
    THEN [S EXCEPT !.new = Append(@, InferredText(text_line[n_word], page)),
                   !.prev = <<"new", Len(S.new) + 1>>]
    ELSE S

RECURSIVE WordsLoop(_, _, _, _, _, _, _)
WordsLoop(S, page, cols, text_line, n_word, num, chapters) ==
    IF n_word > Len(text_line) THEN S
    ELSE WordsLoop(WordStep(S, page, cols, text_line, n_word, num, chapters),
                   page, cols, text_line, n_word + 1, num, chapters)

RECURSIVE LinesLoop(_, _, _, _, _, _)
\* prev_element is None at the start of each line
LinesLoop(S, page, cols, text_lines, num, chapters) ==
    IF text_lines = <<>> THEN S
    ELSE LinesLoop(WordsLoop([S EXCEPT !.prev = <<>>], page, cols, Head(text_lines), 1,
                             num, chapters),
                   page, cols, Tail(text_lines), num, chapters)

RECURSIVE PagesLoop(_, _, _, _, _, _, _)
PagesLoop(S, ocr, cbp, page, n_pages, num, chapters) ==
    IF page >= n_pages THEN S
    ELSE PagesLoop(LinesLoop(S, page, ColumnsOfPage(cbp, page),
                             get_word_list(get_elements_by_page(ocr, page)), num, chapters),
                   ocr, cbp, page + 1, n_pages, num, chapters)

\* update_paragraph_bbox(paragraph)
update_paragraph_bbox(paragraph) ==
    [paragraph EXCEPT
        !.x0 = SeqMin([k \in 1..Len(paragraph.content) |-> paragraph.content[k].x0]),
        !.x1 = SeqMax([k \in 1..Len(paragraph.content) |-> paragraph.content[k].x1]),
        !.y0 = SeqMin([k \in 1..Len(paragraph.content) |-> paragraph.content[k].y0]),
        !.y1 = SeqMax([k \in 1..Len(paragraph.content) |-> paragraph.content[k].y1])]

\* insert_paragraphs_in_layout: the element is a place to insert the
\* paragraph in front of
InsertCandidate(element, paragraph, cbp) ==
    /\ element.page = paragraph.page
    /\ element.y0 > paragraph.y0
    /\ \/ ColumnsOfPage(cbp, element.page) = <<>>
       \/ no_columns_between_elements(element, paragraph, ColumnsOfPage(cbp, element.page))

\* what the scan of layout.root has found when it starts
NothingFound ==
    [insert_perfect_position |-> 0, insert_position |-> 0,
     page_last_non_extra_elem |-> <<>>, page_last_elem |-> 0, before_next_page |-> 0]

RECURSIVE ScanPositions(_, _, _, _, _)
\* insert_paragraphs_in_layout: the scan of layout.root for one paragraph
\* (positions from 1, 0: None); before_next_page is the position the paragraph
\* is inserted at during the scan
ScanPositions(r, paragraph, cbp, elem_position, found) ==
    IF elem_position > Len(r) THEN found
    ELSE IF r[elem_position].page = paragraph.page
    THEN IF /\ InsertCandidate(r[elem_position], paragraph, cbp)
            /\ match_interval(<<r[elem_position].x0, r[elem_position].x1>>,
                              <<paragraph.x0, paragraph.x1>>)
         THEN [found EXCEPT !.insert_perfect_position = elem_position]
         ELSE ScanPositions(r, paragraph, cbp, elem_position + 1,
                [found EXCEPT
                    !.insert_position =
                        IF @ = 0 /\ InsertCandidate(r[elem_position], paragraph, cbp)
                        THEN elem_position ELSE @,
                    !.page_last_non_extra_elem =
                        IF r[elem_position].type \notin ExtraTypes
                        THEN <<elem_position, r[elem_position].y0>> ELSE @,
                    !.page_last_elem = elem_position])
    ELSE IF r[elem_position].page > paragraph.page
    THEN [found EXCEPT !.before_next_page = IF found.page_last_elem = 0 THEN elem_position ELSE 0]
    ELSE ScanPositions(r, paragraph, cbp, elem_position + 1, found)

\* insert_paragraphs_in_layout: the paragraph inserted where the scan says
InsertParagraph(r, paragraph, found) ==
    IF found.before_next_page # 0 THEN InsertAt(r, found.before_next_page, paragraph)
    ELSE IF \E k \in 1..Len(r) : r[k] = paragraph THEN r
    ELSE IF found.insert_perfect_position # 0
    THEN InsertAt(r, found.insert_perfect_position, paragraph)
    ELSE IF found.insert_position # 0 THEN InsertAt(r, found.insert_position, paragraph)
    ELSE IF found.page_last_elem # 0
    THEN IF /\ found.page_last_non_extra_elem # <<>>
            /\ paragraph.y0 < found.page_last_non_extra_elem[2]
         THEN InsertAt(r, found.page_last_non_extra_elem[1] + 1, paragraph)
         ELSE InsertAt(r, found.page_last_elem + 1, paragraph)
    ELSE Append(r, paragraph)

RECURSIVE InsertLoop(_, _, _)
InsertLoop(r, paragraphs, cbp) ==
    IF paragraphs = <<>> THEN r
    ELSE InsertLoop(InsertParagraph(r, update_paragraph_bbox(Head(paragraphs)),
                        ScanPositions(r, update_paragraph_bbox(Head(paragraphs)), cbp, 1,
                                      NothingFound)),
                    Tail(paragraphs), cbp)

\* list.remove(x)
RemoveFirst(r, x) ==
    IF ListIndex(r, x) = 0 THEN r
    ELSE SubSeq(r, 1, ListIndex(r, x) - 1) \o SubSeq(r, ListIndex(r, x) + 1, Len(r))

RECURSIVE MergeWhile(_, _, _)
\* merge_inferred_paragraphs: the while loop on the element at elem_position;
\* the bbox of the element is not updated while it takes the content of the
\* next ones
MergeWhile(r, elem_position, visual_elements) ==
    IF /\ Len(r) > elem_position
       /\ r[elem_position + 1].inferred
       /\ r[elem_position].page = r[elem_position + 1].page
       /\ r[ListIndex(r, r[elem_position]) + 1].type \in ParagraphTypes
       /\ match_interval(<<r[elem_position].x0, r[elem_position].x1>>,
                         <<r[ListIndex(r, r[elem_position]) + 1].x0,
                           r[ListIndex(r, r[elem_position]) + 1].x1>>)
       /\ no_visual_elements_between_elements(r[elem_position],
                r[ListIndex(r, r[elem_position]) + 1], visual_elements)
    THEN MergeWhile(
            RemoveFirst([r EXCEPT ![elem_position].content =
                            @ \o r[ListIndex(r, r[elem_position]) + 1].content],
                        r[ListIndex(r, r[elem_position]) + 1]),
            elem_position, visual_elements)
    ELSE r

RECURSIVE MergeLoop(_, _, _)
MergeLoop(r, elem_position, visual_elements) ==
    IF elem_position > Len(r) THEN r
    ELSE IF r[elem_position].type \in ParagraphTypes /\ r[elem_position].inferred
    THEN MergeLoop(MergeWhile(r, elem_position, visual_elements),
                   elem_position + 1, visual_elements)
    ELSE MergeLoop(r, elem_position + 1, visual_elements)

\* merge_inferred_paragraphs(layout, visual_elements): layout.root afterwards
merge_inferred_paragraphs(r, visual_elements) == MergeLoop(r, 1, visual_elements)

\* insert_paragraphs_in_layout: the bbox of every inferred element updated
WithUpdatedBoxes(r) ==
    [k \in 1..Len(r) |-> IF r[k].inferred THEN update_paragraph_bbox(r[k]) ELSE r[k]]

\* insert_paragraphs_in_layout(layout, paragraphs, visual_elements,
\* columns_by_page) for a layout that is not None (a Layout object is true
\* whatever its root): layout.root afterwards
insert_paragraphs_in_layout(r, paragraphs, visual_elements, cbp) ==
    WithUpdatedBoxes(merge_inferred_paragraphs(InsertLoop(r, paragraphs, cbp), visual_elements))

\* Layout.get_visual_elements()
get_visual_elements(lay) == SelectSeq(lay, LAMBDA e : e.type = "visualElement")

\* populate_paragraphs: the new paragraphs of the word loop put in the layout
InsertNew(S, visual_elements, cbp) ==
    insert_paragraphs_in_layout(S.root, S.new, visual_elements, cbp)

\* populate_paragraphs(layout_ocr, layout, look_for_chapters, REGEX_CHAPTERS,
\* columns_by_page, threshold_word): the root of the layout returned
populate_paragraphs(ocr, r, chapters, cbp, num) ==
    IF r = NoLayout THEN <<>>
    ELSE InsertNew(PagesLoop([root |-> r, new |-> <<>>, prev |-> <<>>], ocr, cbp, 0,
                             Max2(page_count(r), page_count(ocr)), num, chapters),
                   get_visual_elements(ocr), cbp)

(* ---------------------------------------------------------------------- *)
(* Specification SpecPopulate: a layout and the OCR lines of a document,   *)
(* DocumentBuilder.build_document populating the tables                    *)
(* (threshold_word_in_table = 0.5), then the paragraphs                    *)
(* (threshold_word_in_paragraph = 0.25)                                    *)
(* ---------------------------------------------------------------------- *)
MaxWords == 3       \* OCR words and visual elements of a document
MaxStructural == 2  \* elements of the layout of a document

\* the elements a layout is drawn from, in reading order: a table with or
\* without its cells, two paragraphs side by side under it, an element lower
\* on the page, a paragraph on the next page
StructuralChoices ==
    << {<<>>, <<GridTable(0, 2, <<CellW, CellW>>, FALSE)>>,
        <<PElem("table", 0, 0, 0, 2 * CellW, 2 * CellH)>>},
       {<<>>, <<PElem("text", 0, 0, 60, 92, 100)>>},
       {<<>>, <<PElem("text", 0, 108, 60, 200, 100)>>},
       {<<>>, <<PElem("text", 0, 0, 140, 80, 170)>>, <<PElem("footer", 0, 0, 180, 200, 196)>>},
       {<<>>, <<PElem("title", 1, 0, 0, 200, 40)>>} >>

GivenLayouts ==
    {NoLayout} \cup
    {s \in {q[1] \o q[2] \o q[3] \o q[4] \o q[5] :
                q \in StructuralChoices[1] \X StructuralChoices[2] \X StructuralChoices[3]
                        \X StructuralChoices[4] \X StructuralChoices[5]} :
        Len(s) <= MaxStructural}

\* the OCR words: one in a cell of the table, one half in each of two cells,
\* one half in the table and a quarter in each of two cells; one in each
\* paragraph and one between them, 10% in each; one alone lower on the page;
\* two on the next page. The visual element is a rule across the page.
OcrWords ==
    << PWord(<<"t">>, 0, 4, 4, 36, 16),
       PWord(<<"c">>, 0, 24, 24, 56, 36),
       PWord(<<"x">>, 0, 24, 32, 56, 48),
       PWord(<<"a">>, 0, 8, 64, 28, 76),
       PWord(<<"1", ".", "1">>, 0, 90, 64, 110, 76),
       PWord(<<"b">>, 0, 120, 64, 140, 76),
       PElem("visualElement", 0, 0, 108, 200, 112),
       PWord(<<"l">>, 0, 90, 120, 110, 132),
       PWord(<<"p">>, 1, 8, 4, 28, 16),
       PWord(<<"q">>, 1, 90, 120, 110, 132) >>

\* the words of a document do not overlap
Overlapping(a, b) == a.page = b.page /\ calculate_intersection_area(a, b) > 0

\* build_lines: the words of a line overlap on y, the line has their box and
\* holds them from left to right
SameLine(a, b) == a.page = b.page /\ a.y0 < b.y1 /\ b.y0 < a.y1

LineOf(ws) ==
    [type |-> "line", page |-> ws[1].page,
     x0 |-> SeqMin([k \in 1..Len(ws) |-> ws[k].x0]), y0 |-> SeqMin([k \in 1..Len(ws) |-> ws[k].y0]),
     x1 |-> SeqMax([k \in 1..Len(ws) |-> ws[k].x1]), y1 |-> SeqMax([k \in 1..Len(ws) |-> ws[k].y1]),
     content |-> ws]

\* the OCR layout of the words at the positions K of OcrWords: a line for
\* each word that starts one, visual elements as they are
OcrLayout(K) ==
    ConcatAll([k \in 1..Len(OcrWords) |->
        IF k \notin K THEN <<>>
        ELSE IF OcrWords[k].type = "visualElement" THEN <<OcrWords[k]>>
        ELSE IF \E j \in K : j < k /\ OcrWords[j].type = "word" /\ SameLine(OcrWords[j], OcrWords[k])
        THEN <<>>
        ELSE <<LineOf(Pick(OcrWords, {j \in K : /\ OcrWords[j].type = "word"
                                                /\ SameLine(OcrWords[j], OcrWords[k])}))>>])

OcrLayouts ==
    {OcrLayout(K) : K \in {J \in SUBSET (1..Len(OcrWords)) :
        /\ Cardinality(J) <= MaxWords
        /\ \A i, j \in J : i # j => ~Overlapping(OcrWords[i], OcrWords[j])}}

\* lines of one word each, one under the other outside every element: the
\* second reaches from the first to the third, the fourth is under the first
RunWords ==
    << PWord(<<"r">>, 0, 0, 116, 40, 124),
       PWord(<<"s">>, 0, 30, 128, 170, 136),
       PWord(<<"u">>, 0, 160, 140, 200, 148),
       PWord(<<"v">>, 0, 0, 152, 40, 160) >>

RunLayouts ==
    { ConcatAll([k \in 1..Len(RunWords) |->
                    IF k \in K THEN <<LineOf(<<RunWords[k]>>)>> ELSE <<>>]) :
        K \in {J \in SUBSET (1..Len(RunWords)) : J # {} /\ Cardinality(J) <= MaxWords} }

\* columns_by_page: None, a column between the first two words of the line of
\* the paragraphs, or one between its last two
ColumnChoices ==
    { <<>>, << << <<84, 60, 200>> >> >>, << << <<116, 60, 100>> >> >> }

InitPopulate ==
    /\ pop_layout \in GivenLayouts
    /\ pop_ocr \in OcrLayouts \cup RunLayouts
    /\ pop_columns \in ColumnChoices
    /\ pop_chapters \in BOOLEAN
    /\ pop_calls = <<>>
    /\ IdleOutsidePopulate

\* populate_tables(layout_ocr, layout, threshold_word=0.5, pop_words=True)
PopulateTables ==
    /\ pop_calls = <<>>
    /\ pop_layout # NoLayout
    /\ \E r \in {populate_tables(pop_ocr, pop_layout, 2)} :
          /\ pop_layout' = r.root
          /\ pop_ocr' = r.ocr
    /\ pop_calls' = Append(pop_calls,
            [call |-> "populate_tables", layout |-> pop_layout, ocr |-> pop_ocr])
    /\ UNCHANGED <<pop_columns, pop_chapters>>
    /\ UNCHANGED OutsidePopulate

\* populate_paragraphs(layout_ocr, layout, look_for_chapters, REGEX_CHAPTERS,
\* columns_by_page=columns, threshold_word=0.25)
PopulateParagraphs ==
    /\ \A k \in 1..Len(pop_calls) : pop_calls[k].call # "populate_paragraphs"
    /\ pop_layout' = populate_paragraphs(pop_ocr, pop_layout, pop_chapters, pop_columns, 1)
    /\ pop_calls' = Append(pop_calls,
            [call |-> "populate_paragraphs", layout |-> pop_layout, ocr |-> pop_ocr])
    /\ UNCHANGED <<pop_ocr, pop_columns, pop_chapters>>
    /\ UNCHANGED OutsidePopulate

NextPopulate == PopulateTables \/ PopulateParagraphs

SpecPopulate == InitPopulate /\ [][NextPopulate]_vars

(* ---------------------------------------------------------------------- *)
(* Claims on SpecPopulate                                                  *)
(* ---------------------------------------------------------------------- *)
\* the words of the lines of an OCR layout
WordsOf(ocr) ==
    {w \in UNION {{ocr[k].content[i] : i \in 1..Len(ocr[k].content)} :
                    k \in {j \in 1..Len(ocr) : ocr[j].type = "line"}} : TRUE}

\* the places where the paragraphs of a layout hold a word
ParagraphPlaces(r, w) ==
    UNION {{<<k, i>> : i \in {j \in 1..Len(r[k].content) : r[k].content[j] = w}} :
            k \in 1..Len(r)}

\* the places where the cells of the tables of a layout hold the text of a word
TablePlaces(r, w) ==
    UNION {UNION {UNION {{<<k, row, col, i>> :
                            i \in {j \in 1..Len(r[k].rows[row][col]) :
                                        r[k].rows[row][col][j] = w.content}} :
                         col \in 1..Len(r[k].rows[row])} :
                  row \in 1..Len(r[k].rows)} :
           k \in 1..Len(r)}

\* how many times the structural elements of a layout hold a word
Held(r, w) == Cardinality(ParagraphPlaces(r, w)) + Cardinality(TablePlaces(r, w))

\* no element of the layout has a quarter of its area, the smaller of the two
\* containment thresholds, in another element of its page
NoOverlap(r) ==
    \A i, j \in 1..Len(r) :
        (i # j /\ r[i].page = r[j].page) => ~Within(r[i], r[j], 1, ThrDen)

\* C5: when no two structural elements overlap by more than the containment
\* threshold, after populate_tables followed by populate_paragraphs every OCR
\* word fed in is held by exactly one structural element of the resulting
\* layout, none dropped and none attached twice.
C5_WordConservative ==
    (Len(pop_calls) = 2 /\ NoOverlap(pop_calls[1].layout)) =>
        \A w \in WordsOf(pop_calls[1].ocr) : Held(pop_layout, w) = 1

\* populate_paragraphs was the last call
AfterParagraphs ==
    pop_calls # <<>> /\ pop_calls[Len(pop_calls)].call = "populate_paragraphs"

\* a word alone in its line whose ratio in every paragraph of its page is
\* below threshold_word_in_paragraph
LoneOutside(w, ocr, r) ==
    /\ \E k \in 1..Len(ocr) : ocr[k].type = "line" /\ ocr[k].content = <<w>>
    /\ r # NoLayout =>
          \A k \in 1..Len(r) :
              (r[k].page = w.page /\ r[k].type \in ParagraphTypes) => ~Within(w, r[k], 1, ThrDen)

\* the words populate_paragraphs was handed that are alone and outside
LoneWords ==
    {w \in WordsOf(pop_calls[Len(pop_calls)].ocr) :
        LoneOutside(w, pop_calls[Len(pop_calls)].ocr, pop_calls[Len(pop_calls)].layout)}

\* an inferred Text of the layout holds exactly the word, with the word's box
OwnParagraph(w) ==
    \E k \in 1..Len(pop_layout) :
        /\ pop_layout[k].type = "text" /\ pop_layout[k].inferred
        /\ pop_layout[k].page = w.page
        /\ pop_layout[k].content = <<w>>
        /\ BoxOf(pop_layout[k]) = BoxOf(w)

\* no element of the layout that is not inferred holds the word
NotInExisting(w) ==
    \A k \in 1..Len(pop_layout) :
        ~pop_layout[k].inferred =>
            \A i \in 1..Len(pop_layout[k].content) : pop_layout[k].content[i] # w

\* every other word of the page is within a paragraph of the page
OthersInParagraphs(w, ocr, r) ==
    \A v \in WordsOf(ocr) :
        (v # w /\ v.page = w.page) =>
            \E k \in 1..Len(r) : /\ r[k].page = v.page /\ r[k].type \in ParagraphTypes
                                 /\ Within(v, r[k], 1, ThrDen)

Mergeable(a, b, visual_elements) ==
    /\ a.type \in ParagraphTypes /\ a.inferred
    /\ b.type \in ParagraphTypes /\ b.inferred
    /\ a.page = b.page
    /\ match_interval(<<a.x0, a.x1>>, <<b.x0, b.x1>>)
    /\ no_visual_elements_between_elements(a, b, visual_elements)

\* C24: after populate_paragraphs no two neighbours of the layout are
\* inferred paragraphs of one page with matching x-intervals and no visual
\* element between them
C24_NoMergeablePairLeft ==
    (pop_calls # <<>> /\ pop_calls[Len(pop_calls)].call = "populate_paragraphs") =>
        \A k \in 1..(Len(pop_layout) - 1) :
            ~Mergeable(pop_layout[k], pop_layout[k + 1], get_visual_elements(pop_ocr))

(* ---------------------------------------------------------------------- *)
(* Further claims on SpecBbox                                              *)
(* ---------------------------------------------------------------------- *)
\* C12: is_bbox_within raises for every threshold that is not strictly
\* greater than 0, threshold = 0 included, and returns no boolean then.
C12_RaisesUnlessPositive ==
    (within # "-" /\ threshold <= 0) => within = "ValueError"


(* Further claims on SpecSort *)
\* valid boxes of one layout, no two of them sharing any area
Disjoint(lay) ==
    /\ \A i \in 1..Len(lay) :
           0 <= lay[i].x0 /\ lay[i].x0 < lay[i].x1 /\ lay[i].x1 <= One /\
           0 <= lay[i].y0 /\ lay[i].y0 < lay[i].y1 /\ lay[i].y1 <= One
    /\ \A i, j \in 1..Len(lay) : i # j => ~Overlapping(lay[i], lay[j])

\* the elements the leftover loop of sort_layout_by_reading_order appends
Leftover(lay, cols_by_page) ==
    Len(lay) - Len(TraversalOrder(lay, cols_by_page).ordered)

\* C13: when sort_layout_by_reading_order is called with the columns
\* detect_columns returned for the same layout of valid, pairwise
\* non-overlapping elements, the column traversal places every element and
\* the leftover loop appends none.
C13_NoLeftover ==
    [][(SortByReadingOrder /\ history = <<"detect">> /\ Disjoint(layout))
        => Leftover(layout, columns) = 0]_vars


(* Further claims on SpecAggregate *)
\* e is a Paragraph within, by the threshold num/ThrDen, a Paragraph of lay
\* of strictly larger area
ContainedIn(e, lay, num) ==
    \E k \in 1..Len(lay) :
        /\ e.type \in ParagraphTypes /\ lay[k].type \in ParagraphTypes
        /\ 0 < Area(e) /\ Area(e) < Area(lay[k])
        /\ Within(e, lay[k], num, ThrDen)

\* C14: filter_overlapping_paragraph on the elements of one page drops every
\* Paragraph that is within, by the threshold, a Paragraph of strictly larger
\* area of the page, and keeps every other element.
C14_DropsEveryContained ==
    called = "filter_overlapping_paragraph_by_page" =>
        \A k \in 1..2 : \A i \in 1..Len(layouts[k]) :
            InLayout(layouts[k][i], merged)
                <=> ~ContainedIn(layouts[k][i], layouts[1] \o layouts[2], 1)


\* C15: the output of aggregate_layouts is a fixed point of the paragraph
\* overlap filter: filter_overlapping_paragraph_by_page with the same
\* threshold removes no element of it.
C15_AggregateFixedPoint ==
    called = "aggregate_layouts" =>
        filter_overlapping_paragraph_by_page(merged, 1) = merged


\* the batches filter_tables makes of the layout aggregate_layouts hands it
Batches ==
    BatchTables(
        ConcatAll([i \in 1..Len(layouts) |-> filter_overlapping_paragraph_by_page(layouts[i], 1)]),
        <<>>, 2)

\* the extractors of the tables (not the images) of a batch
TableExtractors(tables) ==
    {tables[k].extractor : k \in {i \in 1..Len(tables) : tables[i].type # "image"}}

\* a table of YOLO, or tables of two different extractors
Backed(tables) ==
    "yolov10" \in TableExtractors(tables) \/ Cardinality(TableExtractors(tables)) >= 2

\* C16: in filter_tables with more than one non-empty layout, a batch that is
\* not made only of Images contributes exactly one table to the output when
\* it holds a table of YOLO or tables of two different extractors, and
\* nothing otherwise, whatever Images are in the batch.
C16_BatchContribution ==
    (called = "aggregate_layouts" /\ NbLayout(layouts) > 1) =>
        \A b \in 1..Len(Batches) :
            TableExtractors(Batches[b]) # {} =>
                LET kept == KeptOfBatch(Batches[b], NbLayout(layouts))
                IN  /\ Len(kept) = IF Backed(Batches[b]) THEN 1 ELSE 0
                    /\ \A k \in 1..Len(kept) :
                            kept[k].type # "image" /\ InLayout(kept[k], merged)


\* the column (x, y0, y1) runs through the element: x strictly inside its
\* x-range, and the y-ranges overlapping with positive length
Crosses(col, e) ==
    /\ e.x0 < col[1] /\ col[1] < e.x1
    /\ Max2(e.y0, col[2]) < Min2(e.y1, col[3])

\* C17: every column detect_columns returns for a page is a real gap: it
\* runs through no element of the page that is not an Extra.
C17_ColumnsAreGaps ==
    history = <<"detect">> =>
        \A p \in 1..Len(columns) : \A c \in 1..Len(columns[p]) :
            \A i \in 1..Len(layout) :
                (layout[i].page = p - 1 /\ layout[i].type \notin ExtraTypes)
                    => ~Crosses(columns[p][c], layout[i])


(* ---------------------------------------------------------------------- *)
(* structuration/refine_layout_order.py                                    *)
(* Elements carry one more field, vertical: Paragraph.is_vertical.         *)
(* Positions are Python's plus one.                                        *)
(* ---------------------------------------------------------------------- *)
get_cols_inbetween(cols, element1, element2) ==
    SelectSeq(cols, LAMBDA col :
        /\ \/ element1.x1 < col[1] /\ col[1] < element2.x0
           \/ element2.x1 < col[1] /\ col[1] < element1.x0
        /\ match_interval(<<col[2], col[3]>>, <<element1.y0, element1.y1>>)
        /\ match_interval(<<col[2], col[3]>>, <<element2.y0, element2.y1>>))

get_elements_by_col(col, elements, cols, page) ==
    SelectSeq(elements, LAMBDA element :
        /\ element.page = page
        /\ (col[1] < element.x0 \/ col[1] > element.x1)
        /\ match_interval(<<element.y0, element.y1>>, <<col[2], col[3]>>)
        /\ ~\E k \in 1..Len(cols) :
                /\ cols[k] # col
                /\ \/ col[1] < cols[k][1] /\ cols[k][1] < element.x0
                   \/ element.x1 < cols[k][1] /\ cols[k][1] < col[1]
                /\ match_interval(<<element.y0, element.y1>>, <<cols[k][2], cols[k][3]>>)
                /\ match_interval(<<col[2], col[3]>>, <<cols[k][2], cols[k][3]>>))

\* the condition on the element at pos and the next one
ConsecutiveTitles(lay, pos) ==
    /\ lay[pos].type = "title"
    /\ pos + 1 <= Len(lay)
    /\ lay[pos + 1].type = "title"
    /\ lay[pos].page = lay[pos + 1].page
    /\ lay[pos].y0 > lay[pos + 1].y0

\* side_elements once the loop over cols_inbetween is over: what the last
\* column gave
SideElements(lay, cols_by_page, pos) ==
    LET page_cols == cols_by_page[lay[pos].page + 1]
        cols_inbetween == get_cols_inbetween(page_cols, lay[pos], lay[pos + 1])
    IN  IF cols_inbetween = <<>> THEN <<>>
        ELSE get_elements_by_col(cols_inbetween[Len(cols_inbetween)], lay, page_cols,
                                 lay[pos].page)

\* the positions at which titles_sep_by_column sets `reverse`
ReversePositions(lay, cols_by_page, start_pos) ==
    {pos \in (start_pos + 1)..Len(lay) :
        /\ ConsecutiveTitles(lay, pos)
        /\ \A k \in 1..Len(SideElements(lay, cols_by_page, pos)) :
                SideElements(lay, cols_by_page, pos)[k].type \in {"title"} \cup ExtraTypes}

\* layout.root.pop(reverse[1]); layout.root.insert(reverse[0], title)
SwapAt(lay, pos) ==
    [i \in 1..Len(lay) |-> IF i = pos THEN lay[pos + 1] ELSE IF i = pos + 1 THEN lay[pos] ELSE lay[i]]

\* titles_sep_by_column(layout, columns, start_pos): layout.root after the
\* call and the position returned
titles_sep_by_column(lay, cols_by_page, start_pos) ==
    IF ReversePositions(lay, cols_by_page, start_pos) = {}
    THEN [root |-> lay, n |-> Len(lay)]
    ELSE [root |-> SwapAt(lay, SetMin(ReversePositions(lay, cols_by_page, start_pos))),
          n |-> SetMin(ReversePositions(lay, cols_by_page, start_pos))]

RECURSIVE HeadersRunStopping(_)
\* mutant: a vertical paragraph ends the run as any other element does
HeadersRunStopping(sorted) ==
    IF sorted = <<>> \/ Head(sorted).type \notin ExtraTypes THEN <<>>
    ELSE <<Head(sorted)>> \o HeadersRunStopping(Tail(sorted))

RECURSIVE HeadersRun(_)
\* the loop over layout_sorted_by_y0: vertical paragraphs are skipped, the
\* first element that is no Extra ends it
HeadersRun(sorted) ==
    IF sorted = <<>> THEN <<>>
    ELSE IF Head(sorted).type \in ParagraphTypes /\ Head(sorted).vertical
         THEN HeadersRun(Tail(sorted))
    ELSE IF Head(sorted).type \in ExtraTypes
         THEN <<Head(sorted)>> \o HeadersRun(Tail(sorted))
    ELSE <<>>

\* sorted(elements, key=(y0, x0)) for the top, key=(-y0, x0) for the bottom
SortedByEdge(elements, edge) ==
    SortedBy(elements,
        [i \in 1..Len(elements) |->
            <<IF edge = "top" THEN elements[i].y0 ELSE 0 - elements[i].y0, elements[i].x0>>])

\* to_move of anchor_headers_to_edges
ToMove(lay, edge) ==
    ConcatAll([p \in 1..page_count(lay) |->
        HeadersRun(SortedByEdge(get_elements_by_page(lay, p - 1), edge))])

RECURSIVE MoveToEdge(_, _, _)
\* `for element in to_move[::-1]`: rest is to_move[::-1]
MoveToEdge(lay, rest, edge) ==
    IF rest = <<>> THEN lay
    ELSE MoveToEdge(IF edge = "top"
                    THEN <<Head(rest)>> \o RemoveFirst(lay, Head(rest))
                    ELSE Append(RemoveFirst(lay, Head(rest)), Head(rest)),
                    Tail(rest), edge)

anchor_headers_to_edges(lay, edge) ==
    sort_by_page(MoveToEdge(lay, Reverse(ToMove(lay, edge)), edge))

(* ---------------------------------------------------------------------- *)
(* Specification SpecRefine: refine_layout_order as build_document calls   *)
(* it, on the layout its second sorting pass has ordered                   *)
(* ---------------------------------------------------------------------- *)
MaxRefined == 4     \* elements of the layout handed to build_document

RElem(t, p, a, b, c, d, v) ==
    [id |-> 0, type |-> t, page |-> p, x0 |-> a, y0 |-> b, x1 |-> c, y1 |-> d,
     ext |-> <<>>, columns |-> Unset, vertical |-> v]

\* the detections of two pages, in units of 1/One
RefineCatalogue ==
    << RElem("header", 0, 20, 2, 200, 8, FALSE),      \* running header
       RElem("title", 0, 120, 20, 180, 30, FALSE),    \* title of the right column
       RElem("title", 0, 100, 20, 200, 100, FALSE),   \* tall title on the right half
       RElem("title", 0, 40, 40, 160, 50, FALSE),     \* title over both columns
       RElem("title", 0, 0, 40, 100, 60, FALSE),      \* title on the left half
       RElem("text", 0, 120, 40, 180, 100, FALSE),    \* body of the right column
       RElem("title", 0, 0, 60, 80, 70, FALSE),       \* title of the left column
       RElem("text", 0, 0, 80, 80, 180, FALSE),       \* body of the left column
       RElem("text", 0, 0, 0, 8, 186, TRUE),          \* vertical text in the margin
       RElem("footer", 0, 0, 190, 200, 196, FALSE),   \* page number
       RElem("header", 1, 0, 2, 200, 8, FALSE),       \* header of the second page
       RElem("text", 1, 0, 20, 200, 100, FALSE) >>    \* body of the second page

\* the layouts handed to build_document: at most MaxRefined detections, in
\* the order of the catalogue or in the reverse order
RefineLayouts ==
    UNION { {Pick(RefineCatalogue, K), Reverse(Pick(RefineCatalogue, K))} :
            K \in {L \in SUBSET (1..Len(RefineCatalogue)) : Cardinality(L) <= MaxRefined} }

\* build_document: detect_columns and sort_layout_by_reading_order
SortingPass(lay) ==
    sort_layout_by_reading_order(detect_columns(lay, <<>>, FALSE).layout,
                                 detect_columns(lay, <<>>, FALSE).columns_by_page)

\* build_document before its second pass: metadata["columns"] is popped and
\* the layout sorted by bbox
BeforeSecondPass(lay) ==
    sort_by_bbox([i \in 1..Len(lay) |-> [lay[i] EXCEPT !.columns = Unset]])

\* the layout and the columns build_document hands to refine_layout_order
InitRefine ==
    /\ \E s \in RefineLayouts :
        \E r \in {detect_columns(BeforeSecondPass(SortingPass(WithIds(s))), <<>>, FALSE)} :
            /\ ref_columns = r.columns_by_page
            /\ ref_layout = sort_layout_by_reading_order(r.layout, r.columns_by_page)
    /\ ref_prev = ref_layout
    /\ ref_n = 0
    /\ ref_pc = "titles"
    /\ IdleOutsideRefine

\* one turn of `while n < len(layout.root): n = titles_sep_by_column(...)`
TitlesSepByColumn ==
    /\ ref_pc = "titles"
    /\ ref_n < Len(ref_layout)
    /\ \E r \in {titles_sep_by_column(ref_layout, ref_columns, ref_n)} :
            /\ ref_layout' = r.root
            /\ ref_n' = r.n
    /\ ref_prev' = ref_layout
    /\ UNCHANGED <<ref_columns, ref_pc>>
    /\ UNCHANGED OutsideRefine

\* the loop is over: anchor_headers_to_edges(layout, "top"), then "bottom"
AnchorHeadersToEdges ==
    /\ ref_pc = "titles"
    /\ ref_n >= Len(ref_layout)
    /\ ref_layout' = anchor_headers_to_edges(anchor_headers_to_edges(ref_layout, "top"), "bottom")
    /\ ref_prev' = ref_layout
    /\ ref_pc' = "done"
    /\ UNCHANGED <<ref_columns, ref_n>>
    /\ UNCHANGED OutsideRefine

NextRefine == TitlesSepByColumn \/ AnchorHeadersToEdges

SpecRefine == InitRefine /\ [][NextRefine]_vars


(* ---------------------------------------------------------------------- *)
(* Claims on SpecRefine                                                    *)
(* ---------------------------------------------------------------------- *)
\* the last step was a turn of the loop that swapped the elements at ref_n
\* and ref_n + 1
Swapped == ref_pc = "titles" /\ ref_layout # ref_prev

\* every element beside the column is a title, a header, a footer or an extra
OnlyTitlesBeside(col, lay, cols, page) ==
    \A k \in 1..Len(get_elements_by_col(col, lay, cols, page)) :
        get_elements_by_col(col, lay, cols, page)[k].type \in {"title"} \cup ExtraTypes

\* C18: refine_layout_order swaps two consecutive Titles of one page only
\* when the second lies above the first, at least one detected column
\* separates them, and only titles, headers, footers or extras lie beside
\* every column between them.
C18_SwapOnlyAcrossColumn ==
    Swapped =>
        LET first == ref_prev[ref_n]
            second == ref_prev[ref_n + 1]
            between == get_cols_inbetween(ref_columns[first.page + 1], first, second)
        IN  /\ first.type = "title" /\ second.type = "title"
            /\ first.page = second.page
            /\ second.y0 < first.y0
            /\ between # <<>>
            /\ \A c \in 1..Len(between) :
                    OnlyTitlesBeside(between[c], ref_prev, ref_columns[first.page + 1], first.page)


RECURSIVE ExtrasPrefix(_)
\* the Extra, Header and Footer elements a sequence starts with
ExtrasPrefix(sorted) ==
    IF sorted = <<>> \/ Head(sorted).type \notin ExtraTypes THEN <<>>
    ELSE <<Head(sorted)>> \o ExtrasPrefix(Tail(sorted))

\* the ids of the contiguous run of extras at an edge of the page, by y0
EdgeRun(elements, edge) ==
    {e.id : e \in {ExtrasPrefix(SortedByEdge(elements, edge))[k] :
                        k \in 1..Len(ExtrasPrefix(SortedByEdge(elements, edge)))}}

IdsOf(s, K) == {s[i].id : i \in K}

\* the page's elements after and before the anchoring
AnchoredPage(after, before) ==
    LET top == EdgeRun(before, "top")
        bottom == EdgeRun(before, "bottom")
    IN  /\ IdsOf(after, 1..Cardinality(top)) = top
        /\ IdsOf(after, (Len(after) - Cardinality(bottom) + 1)..Len(after)) = bottom
        /\ SelectSeq(after, LAMBDA e : e.id \notin top \cup bottom)
            = SelectSeq(before, LAMBDA e : e.id \notin top \cup bottom)

\* C19 (as stated): after refine_layout_order the extras that form the run
\* at the very top of a page by y0 are the first elements of the page's run
\* in the layout, those of the run at the very bottom its last, the layout is
\* grouped by page in non-decreasing page order, and the other elements of
\* the page keep their relative order.
C19_HeadersAnchored ==
    ref_pc = "done" =>
        /\ \A i, j \in 1..Len(ref_layout) : i < j => ref_layout[i].page <= ref_layout[j].page
        /\ \A p \in 0..(page_count(ref_prev) - 1) :
                AnchoredPage(get_elements_by_page(ref_layout, p), get_elements_by_page(ref_prev, p))

\* the elements that are no vertical paragraph
Upright(elements) ==
    SelectSeq(elements, LAMBDA e : ~(e.type \in ParagraphTypes /\ e.vertical))

\* the page's elements after and before the anchoring, the runs being taken
\* among the elements that are no vertical paragraph; an extra of both runs
\* goes to the bottom
AnchoredUpright(after, before) ==
    LET bottom == EdgeRun(Upright(before), "bottom")
        top == EdgeRun(Upright(before), "top") \ bottom
    IN  /\ IdsOf(after, 1..Cardinality(top)) = top
        /\ IdsOf(after, (Len(after) - Cardinality(bottom) + 1)..Len(after)) = bottom
        /\ SelectSeq(after, LAMBDA e : e.id \notin top \cup bottom)
            = SelectSeq(before, LAMBDA e : e.id \notin top \cup bottom)

\* C19 (amended): the same with the runs taken among the elements of the
\* page that are no vertical paragraph.
C19_UprightHeadersAnchored ==
    ref_pc = "done" =>
        /\ \A i, j \in 1..Len(ref_layout) : i < j => ref_layout[i].page <= ref_layout[j].page
        /\ \A p \in 0..(page_count(ref_prev) - 1) :
                AnchoredUpright(get_elements_by_page(ref_layout, p), get_elements_by_page(ref_prev, p))

\* C19 witness: a page whose header lies below a vertical paragraph and came
\* after it, and whose footer came before a body element, has been anchored
C19_AnchoredWitness ==
    /\ ref_pc = "done"
    /\ \E i, j, k, l \in 1..Len(ref_prev) :
            /\ i < j /\ k < l
            /\ ref_prev[i].vertical /\ ref_prev[j].type = "header"
            /\ ref_prev[i].page = ref_prev[j].page /\ ref_prev[i].y0 < ref_prev[j].y0
            /\ ref_prev[k].type = "footer" /\ ref_prev[l].type \notin ExtraTypes
            /\ ref_prev[k].page = ref_prev[l].page
    /\ ref_layout # ref_prev


(* ---------------------------------------------------------------------- *)
(* jobs/default.py and structuration/document_builder.py: the calls of     *)
(* default_pipeline, batch after batch. The merged layout is a PLayout,    *)
(* which is truthy whatever it holds, so `look_for_columns and layout` is  *)
(* look_for_columns.                                                       *)
(* ---------------------------------------------------------------------- *)
MaxBatches == 2     \* page batches of one document

\* build_document after populate_paragraphs and the visual elements
AfterPopulate(cfg) == IF cfg.look_for_columns THEN "detect_again" ELSE "built"

\* build_document after its first sorting pass: lines are built when the OCR
\* layout holds words
AfterFirstPass(cfg, b) == IF cfg.words[b] THEN "build_lines" ELSE "populate"

\* mutant: build_document without its first sorting pass
AfterAggregateUnsorted(cfg, b) == AfterFirstPass(cfg, b)

\* build_document from its first statement
AfterAggregate(cfg, b) ==
    IF cfg.look_for_columns THEN "detect_columns" ELSE AfterFirstPass(cfg, b)

\* the loop of default_pipeline once build_document has returned
AfterBuild(cfg, b) == IF b < cfg.batches THEN "extract" ELSE "enrich"

Called(b, stage) == [batch |-> b, stage |-> stage]

InitPipeline ==
    /\ \E n \in 1..MaxBatches, look \in BOOLEAN, w \in [1..MaxBatches -> BOOLEAN] :
            pipe_cfg = [batches |-> n, look_for_columns |-> look,
                        words |-> [b \in 1..n |-> w[b]]]
    /\ pipe_pc = "extract"
    /\ pipe_batch = 1
    /\ pipe_trace = <<>>
    /\ IdleOutsidePipeline

\* results = self._process_extract(file_content)
ProcessExtract ==
    /\ pipe_pc = "extract"
    /\ pipe_trace' = Append(pipe_trace, Called(pipe_batch, "Extracted"))
    /\ pipe_pc' = "aggregate"
    /\ UNCHANGED <<pipe_cfg, pipe_batch>>
    /\ UNCHANGED OutsidePipeline

\* merged_layout = self._aggregate_layouts(...); build_document is entered
AggregateBatch ==
    /\ pipe_pc = "aggregate"
    /\ pipe_trace' = Append(pipe_trace, Called(pipe_batch, "Aggregated"))
    /\ pipe_pc' = AfterAggregate(pipe_cfg, pipe_batch)
    /\ UNCHANGED <<pipe_cfg, pipe_batch>>
    /\ UNCHANGED OutsidePipeline

\* columns = detect_columns(layout, layout_ocr)
FirstDetectColumns ==
    /\ pipe_pc = "detect_columns"
    /\ pipe_trace' = Append(pipe_trace, Called(pipe_batch, "ColumnsDetected"))
    /\ pipe_pc' = "sort"
    /\ UNCHANGED <<pipe_cfg, pipe_batch>>
    /\ UNCHANGED OutsidePipeline

\* layout = sort_layout_by_reading_order(layout, columns)
FirstSort ==
    /\ pipe_pc = "sort"
    /\ pipe_trace' = Append(pipe_trace, Called(pipe_batch, "Ordered"))
    /\ pipe_pc' = AfterFirstPass(pipe_cfg, pipe_batch)
    /\ UNCHANGED <<pipe_cfg, pipe_batch>>
    /\ UNCHANGED OutsidePipeline

\* layout_ocr = self.build_line_method(layout_ocr, ...)
BuildLines ==
    /\ pipe_pc = "build_lines"
    /\ pipe_trace' = Append(pipe_trace, Called(pipe_batch, "LinesBuilt"))
    /\ pipe_pc' = "populate"
    /\ UNCHANGED <<pipe_cfg, pipe_batch>>
    /\ UNCHANGED OutsidePipeline

\* populate_tables (when the layout holds a table), populate_paragraphs and
\* insert_visual_elements_in_layout
Populate ==
    /\ pipe_pc = "populate"
    /\ pipe_trace' = Append(pipe_trace, Called(pipe_batch, "Populated"))
    /\ pipe_pc' = AfterPopulate(pipe_cfg)
    /\ UNCHANGED <<pipe_cfg, pipe_batch>>
    /\ UNCHANGED OutsidePipeline

\* layout.sort_by_bbox(); columns = detect_columns(layout)
SecondDetectColumns ==
    /\ pipe_pc = "detect_again"
    /\ pipe_trace' = Append(pipe_trace, Called(pipe_batch, "ColumnsDetected"))
    /\ pipe_pc' = "sort_again"
    /\ UNCHANGED <<pipe_cfg, pipe_batch>>
    /\ UNCHANGED OutsidePipeline

\* layout = sort_layout_by_reading_order(layout, columns)
SecondSort ==
    /\ pipe_pc = "sort_again"
    /\ pipe_trace' = Append(pipe_trace, Called(pipe_batch, "Ordered"))
    /\ pipe_pc' = "refine"
    /\ UNCHANGED <<pipe_cfg, pipe_batch>>
    /\ UNCHANGED OutsidePipeline

\* refine_layout_order(layout, columns)
RefineLayoutOrder ==
    /\ pipe_pc = "refine"
    /\ pipe_trace' = Append(pipe_trace, Called(pipe_batch, "Refined"))
    /\ pipe_pc' = "built"
    /\ UNCHANGED <<pipe_cfg, pipe_batch>>
    /\ UNCHANGED OutsidePipeline

\* build_document returns layout.filter_empty_elements(); the loop of
\* default_pipeline goes to the next batch or ends
ReturnDocument ==
    /\ pipe_pc = "built"
    /\ pipe_pc' = AfterBuild(pipe_cfg, pipe_batch)
    /\ pipe_batch' = IF pipe_batch < pipe_cfg.batches THEN pipe_batch + 1 ELSE pipe_batch
    /\ UNCHANGED <<pipe_cfg, pipe_trace>>
    /\ UNCHANGED OutsidePipeline

\* merge_layouts(*doc_parts) when there are several parts, then
\* self._enrich_document(document, layout_modifier)
EnrichDocument ==
    /\ pipe_pc = "enrich"
    /\ pipe_trace' = Append(pipe_trace, Called(0, "Enriched"))
    /\ pipe_pc' = "dump"
    /\ UNCHANGED <<pipe_cfg, pipe_batch>>
    /\ UNCHANGED OutsidePipeline

\* document.filter_empty_elements(keep_empty_image=False); self._dump_result(document)
DumpResult ==
    /\ pipe_pc = "dump"
    /\ pipe_trace' = Append(pipe_trace, Called(0, "Exported"))
    /\ pipe_pc' = "end"
    /\ UNCHANGED <<pipe_cfg, pipe_batch>>
    /\ UNCHANGED OutsidePipeline

NextPipeline ==
    \/ ProcessExtract \/ AggregateBatch \/ FirstDetectColumns \/ FirstSort
    \/ BuildLines \/ Populate \/ SecondDetectColumns \/ SecondSort
    \/ RefineLayoutOrder \/ ReturnDocument \/ EnrichDocument \/ DumpResult

SpecPipeline == InitPipeline /\ [][NextPipeline]_vars

(* ---------------------------------------------------------------------- *)
(* Claims on SpecPipeline                                                  *)
(* ---------------------------------------------------------------------- *)
\* the stages of batch b in the order they were run, with those run on the
\* whole document
StagesOf(b) ==
    LET events == SelectSeq(pipe_trace, LAMBDA c : c.batch \in {b, 0})
    IN  [k \in 1..Len(events) |-> events[k].stage]

\* C11 (as stated): every page batch (of a run with look_for_columns, the
\* default, and words in the OCR) passes through Extracted, Aggregated,
\* LinesBuilt, Populated, ColumnsDetected, Ordered, Refined, Enriched,
\* Exported in this order, each stage once.
C11_StagesInOrder ==
    (pipe_pc = "end" /\ pipe_cfg.look_for_columns) =>
        \A b \in {c \in 1..pipe_cfg.batches : pipe_cfg.words[c]} :
            StagesOf(b) = <<"Extracted", "Aggregated", "LinesBuilt", "Populated",
                            "ColumnsDetected", "Ordered", "Refined", "Enriched", "Exported">>

\* the stages build_document runs with look_for_columns set
SortingStages(look, stages) == IF look THEN stages ELSE <<>>

\* C11 (amended): with look_for_columns a batch is Extracted, Aggregated,
\* has its columns detected and is Ordered a first time, then LinesBuilt
\* (when the OCR holds words), Populated, and again ColumnsDetected, Ordered,
\* then Refined; the document is Enriched and Exported once, after the last
\* batch.
C11_StagesAsBuilt ==
    pipe_pc = "end" =>
        /\ \A b \in 1..pipe_cfg.batches :
            StagesOf(b) =
                <<"Extracted", "Aggregated">>
                \o SortingStages(pipe_cfg.look_for_columns, <<"ColumnsDetected", "Ordered">>)
                \o (IF pipe_cfg.words[b] THEN <<"LinesBuilt">> ELSE <<>>)
                \o <<"Populated">>
                \o SortingStages(pipe_cfg.look_for_columns,
                                 <<"ColumnsDetected", "Ordered", "Refined">>)
                \o <<"Enriched", "Exported">>
        /\ \A k \in 1..(Len(pipe_trace) - 2) : pipe_trace[k].batch # 0
        /\ \A k \in 1..(Len(pipe_trace) - 1) :
                pipe_trace[k].batch <= pipe_trace[k + 1].batch \/ pipe_trace[k + 1].batch = 0

\* C11 witness: two batches with words have been processed with
\* look_for_columns and the document exported
C11_PipelineWitness ==
    /\ pipe_pc = "end"
    /\ pipe_cfg.batches = 2
    /\ pipe_cfg.look_for_columns
    /\ pipe_cfg.words[1] /\ pipe_cfg.words[2]
    /\ Len(pipe_trace) = 20

(* ---------------------------------------------------------------------- *)
(* enrichment/xml_exporter.py and enrichment/hierarchy_utils.py:          *)
(* XmlExporter._build_tree, the hierarchy and the split_candidate of the  *)
(* elements of a layout.  Positions are the 0-based positions of          *)
(* enumerate(layout.root); a dict is a function on the set of its keys.   *)
(* ---------------------------------------------------------------------- *)
MAX_TITLE_SPLIT_CANDIDATE == 6
MIN_SPLIT_CANDIDATE_PARAGRAPH == 4

\* longest layout exported
MaxXml == 4

\* current_title = None
NoTitle == 0 - 1

min(a, b) == IF a <= b THEN a ELSE b
max(a, b) == IF a >= b THEN a ELSE b

\* d[k] = v
Put(d, k, v) == [x \in DOMAIN d \cup {k} |-> IF x = k THEN v ELSE d[x]]
\* d.setdefault(k, v)
SetDefault(d, k, v) == IF k \in DOMAIN d THEN d ELSE Put(d, k, v)
\* d.get(k, v)
Get(d, k, v) == IF k \in DOMAIN d THEN d[k] ELSE v
\* d[k].append(v)
AppendAt(d, k, v) == Put(d, k, Append(d[k], v))
\* v in list
In(v, list) == \E i \in 1..Len(list) : list[i] = v

\* layout.root[position]
At(lay, position) == lay[position + 1]

CaptionLabels == {"table_caption", "figure_caption", "formula_caption"}
\* the types _build_tree does not skip
TreeTypes == {"text", "list", "title", "extra", "header", "footer", "tableContent", "image"}
\* isinstance(element, Paragraph)
IsParagraph(element) ==
    element.type \in {"text", "list", "title", "extra", "header", "footer", "image"}

set_hierarchy_with_next_caption(position, st) ==
    LET split == Put(st.split_candidate, position, st.split_candidate[position] + 1)
        hierarchy == SetDefault(st.hierarchy, position + 1, <<>>)
    IN  [st EXCEPT
            !.hierarchy = AppendAt(hierarchy, position + 1, position),
            !.split_candidate =
                Put(split, position + 1,
                    min(Get(split, position + 1, MAX_TITLE_SPLIT_CANDIDATE + 1),
                        split[position] - 1))]

\* one block of set_element_caption: "previous" when the element takes the
\* caption before it, "next" when it takes the one after it, else "none"
CaptionFound(lay, position, st, caption) ==
    IF /\ position > 0
       /\ At(lay, position - 1).label = caption
       /\ ~In(position - 2, st.hierarchy[position - 1])
    THEN "previous"
    ELSE IF /\ Len(lay) > position + 1
            /\ At(lay, position + 1).label = caption
         THEN "next"
         ELSE "none"

\* the block of set_element_caption that returns True, if any
ElementCaption(lay, position, st) ==
    LET element == At(lay, position)
        byType ==
            IF element.type = "tableContent"
            THEN CaptionFound(lay, position, st, "table_caption")
            ELSE IF element.type = "image"
                 THEN CaptionFound(lay, position, st, "figure_caption")
                 ELSE "none"
    IN  IF byType # "none" THEN byType
        ELSE IF element.label = "isolate_formula"
             THEN CaptionFound(lay, position, st, "formula_caption")
             ELSE "none"

\* the state set_element_caption leaves when block `found` returns True
set_element_caption(position, st, found) ==
    IF found = "previous"
    THEN [st EXCEPT
            !.hierarchy = AppendAt(st.hierarchy, position - 1, position),
            !.split_candidate =
                Put(st.split_candidate, position,
                    st.split_candidate[position - 1] + 1)]
    ELSE set_hierarchy_with_next_caption(position, st)

set_title_hierarchy(element, position, st) ==
    LET caption == element.label \in CaptionLabels
        child == /\ st.current_title # NoTitle
                 /\ (st.current_title = position - 1 \/ caption)
        level == IF child /\ ~caption THEN st.title_level + 1 ELSE st.title_level
        own == IF child
               THEN min(st.split_candidate[position],
                        st.split_candidate[st.current_title] + 1)
               ELSE st.split_candidate[position]
    IN  [st EXCEPT
            !.hierarchy = IF child
                          THEN AppendAt(st.hierarchy, st.current_title, position)
                          ELSE st.hierarchy,
            !.split_candidate =
                Put(st.split_candidate, position,
                    min(min(own, level), MAX_TITLE_SPLIT_CANDIDATE)),
            !.title_level = IF st.current_title = NoTitle THEN 1 ELSE level,
            !.current_title = IF caption THEN st.current_title ELSE position]

set_table_footnote(lay, position, st) ==
    IF /\ At(lay, position).label = "table_footnote"
       /\ position > 0
       /\ At(lay, position - 1).type = "tableContent"
    THEN [st EXCEPT !.split_candidate =
            Put(st.split_candidate, position, st.split_candidate[position - 1] + 1)]
    ELSE st

\* the condition of set_list_caption
ListCaption(lay, position) ==
    /\ At(lay, position).type = "list"
    /\ position > 0
    /\ IsParagraph(At(lay, position - 1))
    /\ At(lay, position - 1).colon

set_list_caption(position, st) ==
    [st EXCEPT
        !.split_candidate =
            Put(st.split_candidate, position, st.split_candidate[position - 1] + 1),
        !.hierarchy = AppendAt(st.hierarchy, position - 1, position)]

set_paragraph_hierarchy(position, st) ==
    [st EXCEPT
        !.hierarchy = AppendAt(st.hierarchy, st.current_title, position),
        !.split_candidate =
            IF st.split_candidate[position] # 0
            THEN Put(st.split_candidate, position,
                     max(st.split_candidate[st.current_title] + 1,
                         MIN_SPLIT_CANDIDATE_PARAGRAPH))
            ELSE st.split_candidate]

\* the setdefault calls and the page change at the head of the loop body
EnterElement(element, position, st) ==
    LET split == SetDefault(st.split_candidate, position, MAX_TITLE_SPLIT_CANDIDATE + 1)
        changed == element.page # st.current_page
    IN  [st EXCEPT
            !.hierarchy = SetDefault(st.hierarchy, position, <<>>),
            !.split_candidate = IF changed THEN Put(split, position, 0) ELSE split,
            !.title_level = IF changed /\ element.type = "title"
                            THEN 1 ELSE st.title_level]

\* the branch for an element that is no title, after set_table_footnote
PlaceOther(lay, position, st) ==
    IF ElementCaption(lay, position, st) # "none"
    THEN set_element_caption(position, st, ElementCaption(lay, position, st))
    ELSE IF ListCaption(lay, position)
         THEN set_list_caption(position, st)
         ELSE IF st.current_title # NoTitle
              THEN set_paragraph_hierarchy(position, st)
              ELSE st

ResetLevel(st) ==
    [st EXCEPT !.title_level = IF st.title_level # 0 THEN 1 ELSE 0]

PlaceElement(lay, position, st) ==
    IF At(lay, position).type = "title"
    THEN set_title_hierarchy(At(lay, position), position, st)
    ELSE ResetLevel(PlaceOther(lay, position, set_table_footnote(lay, position, st)))

\* one turn of the loop over enumerate(layout.root)
TreeStep(lay, position, st) ==
    IF At(lay, position).type \notin TreeTypes
    THEN st
    ELSE [PlaceElement(lay, position, EnterElement(At(lay, position), position, st))
            EXCEPT !.current_page = At(lay, position).page]

RECURSIVE TreeLoop(_, _, _)
TreeLoop(lay, position, st) ==
    IF position >= Len(lay) THEN st
    ELSE TreeLoop(lay, position + 1, TreeStep(lay, position, st))

\* max(v for v in split_candidate.values() if v < MAX + 1, default=-1)
MaxLevel(split) ==
    LET low == {split[k] : k \in DOMAIN split} \cap (0 - 1)..MAX_TITLE_SPLIT_CANDIDATE
    IN  IF low = {} THEN 0 - 1 ELSE CHOOSE m \in low : \A v \in low : v <= m

\* "avoid gaps in split levels"
CompactLevels(split, max_level) ==
    [k \in DOMAIN split |->
        IF split[k] = MAX_TITLE_SPLIT_CANDIDATE + 1 THEN max_level + 1
        ELSE IF split[k] = MAX_TITLE_SPLIT_CANDIDATE + 2 THEN max_level + 2
             ELSE split[k]]

\* children.remove(child) for the children of another page
SamePageChildren(lay, parent, children) ==
    SelectSeq(children, LAMBDA child : At(lay, parent).page = At(lay, child).page)

RemoveCrossPage(lay, hierarchy) ==
    [parent \in DOMAIN hierarchy |-> SamePageChildren(lay, parent, hierarchy[parent])]

TreeOf(lay, allow_cross_page_nodes, st) ==
    [hierarchy |-> IF allow_cross_page_nodes THEN st.hierarchy
                   ELSE RemoveCrossPage(lay, st.hierarchy),
     split_candidate |-> CompactLevels(st.split_candidate, MaxLevel(st.split_candidate))]

build_tree(lay, allow_cross_page_nodes) ==
    TreeOf(lay, allow_cross_page_nodes,
           TreeLoop(lay, 0, [hierarchy |-> <<>>, split_candidate |-> <<>>,
                             current_title |-> NoTitle, current_page |-> 0,
                             title_level |-> 0]))

\* the kinds of element a layout holds when it is exported: the classes the
\* YOLO labels are created with, the populated tables, lists and visual elements
XmlKinds ==
    { [type |-> "title", label |-> "title", colon |-> FALSE],
      [type |-> "title", label |-> "table_caption", colon |-> FALSE],
      [type |-> "title", label |-> "figure_caption", colon |-> FALSE],
      [type |-> "text", label |-> "plain text", colon |-> FALSE],
      [type |-> "text", label |-> "plain text", colon |-> TRUE],
      [type |-> "text", label |-> "table_footnote", colon |-> FALSE],
      [type |-> "list", label |-> "-", colon |-> TRUE],
      [type |-> "tableContent", label |-> "-", colon |-> FALSE],
      [type |-> "image", label |-> "figure", colon |-> FALSE],
      [type |-> "visualElement", label |-> "-", colon |-> FALSE] }

\* the elements of kinds ks, the first `first` of them on page 0, the rest on page 1
XmlLayout(ks, first) ==
    [i \in 1..Len(ks) |->
        [type |-> ks[i].type, label |-> ks[i].label, colon |-> ks[i].colon,
         page |-> IF i <= first THEN 0 ELSE 1]]

NoTree == [hierarchy |-> <<>>, split_candidate |-> <<>>]

InitXml ==
    /\ xml_layout = <<>>
    /\ xml_allow = TRUE
    /\ xml_tree = NoTree
    /\ xml_pc = "export"
    /\ IdleOutsideXml

\* export_xml(layout): hierarchy, split_candidate = self._build_tree(layout)
BuildTree ==
    /\ xml_pc = "export"
    /\ \E n \in 1..MaxXml :
          \E ks \in [1..n -> XmlKinds], first \in 0..n, allow_cross_page_nodes \in BOOLEAN :
              /\ xml_layout' = XmlLayout(ks, first)
              /\ xml_allow' = allow_cross_page_nodes
              /\ xml_tree' = build_tree(xml_layout', allow_cross_page_nodes)
    /\ xml_pc' = "built"
    /\ UNCHANGED OutsideXml

NextXml == BuildTree

SpecXml == InitXml /\ [][NextXml]_vars

\* the values of a dict
Values(d) == {d[k] : k \in DOMAIN d}

\* S is a range of integers without a gap
Contiguous(S) ==
    \A a \in S : \A b \in S : \A v \in a..b : v \in S

\* C20: the split_candidate values _build_tree returns form a contiguous
\* range of integers, from their minimum to their maximum
C20_SplitCandidatesContiguous ==
    xml_pc = "built" => Contiguous(Values(xml_tree.split_candidate))

(* ---------------------------------------------------------------------- *)
(* jobs/default.py, extract/pdfplumber_extractor.py, utils.py:            *)
(* DefaultParsing._extract_ocr and its place in default_pipeline.  A file *)
(* is the sequence of the pages of one batch; a page holds the words      *)
(* pdfplumber finds on it, its solid lines, and whether pdfplumber fails  *)
(* on it.  A threshold is the rational n / ThrDen.                        *)
(* ---------------------------------------------------------------------- *)
\* most batches load_pdf_batch yields
MaxOcrBatches == 2
\* most pages of a batch
MaxBatchPages == 2

\* a word of page.extract_words: does word["text"] hold "(cid:N)", does it
\* hold a character without a Unicode name
OcrWord(kind) == [cid |-> kind = "cid", unreadable |-> kind = "unreadable"]
OcrWordsOf(kinds) == [i \in 1..Len(kinds) |-> OcrWord(kinds[i])]
OcrPage(kinds, lines, broken) ==
    [words |-> OcrWordsOf(kinds), lines |-> lines, broken |-> broken]

OcrPages ==
    { OcrPage(<<>>, 0, FALSE),
      OcrPage(<<>>, 1, FALSE),
      OcrPage(<<"ok", "ok", "ok", "ok">>, 0, FALSE),
      OcrPage(<<"cid", "ok", "ok", "ok">>, 0, FALSE),
      OcrPage(<<"ok", "cid", "cid", "ok">>, 1, FALSE),
      OcrPage(<<"cid", "cid", "cid", "ok">>, 0, FALSE),
      OcrPage(<<"ok", "unreadable", "unreadable", "ok">>, 0, FALSE),
      OcrPage(<<"unreadable", "unreadable", "ok", "unreadable">>, 0, FALSE),
      OcrPage(<<"cid", "unreadable", "ok", "ok">>, 0, FALSE),
      OcrPage(<<"ok", "ok">>, 0, TRUE) }

RECURSIVE CidLoop(_, _, _, _)
CidLoop(words, i, cids, num) ==
    IF i > Len(words) THEN FALSE
    ELSE IF words[i].cid
         THEN IF (cids + 1) * ThrDen > num * Len(words) THEN TRUE
              ELSE CidLoop(words, i + 1, cids + 1, num)
         ELSE CidLoop(words, i + 1, cids, num)

\* check_cid_error(words, num / ThrDen)
check_cid_error(words, num) == CidLoop(words, 1, 0, num)

RECURSIVE UnreadableLoop(_, _, _, _)
UnreadableLoop(words, i, unreadable_count, num) ==
    IF i > Len(words) THEN FALSE
    ELSE IF words[i].unreadable
         THEN IF (unreadable_count + 1) * ThrDen > num * Len(words) THEN TRUE
              ELSE UnreadableLoop(words, i + 1, unreadable_count + 1, num)
         ELSE UnreadableLoop(words, i + 1, unreadable_count, num)

\* check_unreadable_chars(words, num / ThrDen)
check_unreadable_chars(words, num) == UnreadableLoop(words, 1, 0, num)

\* _extract_from_page(page, ElementType.WORD): the exception it ends with
\* ("-": none) and the length of the word_list it returns
extract_from_page(page, cfg) ==
    IF page.broken THEN [raised |-> "Exception", count |-> 0]
    ELSE IF page.words # <<>> /\ check_cid_error(page.words, cfg.cid_error_threshold)
         THEN [raised |-> "ManyCidError", count |-> 0]
         ELSE IF /\ page.words # <<>>
                 /\ check_unreadable_chars(page.words, cfg.unreadable_char_threshold)
              THEN [raised |-> "ManyUnreadableCharError", count |-> 0]
              ELSE [raised |-> "-",
                    count |-> Len(page.words)
                              + (IF cfg.extract_visual_elements THEN page.lines ELSE 0)]

\* the outcome of the try block of extract_elements once page i has given `got`
RECURSIVE OcrPagesLoop(_, _, _, _)
OcrAfterPage(file, i, cfg, count, got) ==
    IF got.raised # "-"
    THEN [raised |-> "PdfPlumberExtractionError", cause |-> got.raised, count |-> 0]
    ELSE OcrPagesLoop(file, i + 1, cfg, count + got.count)

OcrPagesLoop(file, i, cfg, count) ==
    IF i > Len(file) THEN [raised |-> "-", cause |-> "-", count |-> count]
    ELSE OcrAfterPage(file, i, cfg, count, extract_from_page(file[i], cfg))

OcrAfterTry(got) ==
    IF got.raised = "-" /\ got.count = 0
    THEN [raised |-> "PdfPlumberEmptyContent", cause |-> "-", count |-> 0]
    ELSE got

\* PdfPlumberExtractor.extract_words(file_content) on a batch of at least one page
plumber_extract_words(file, cfg) == OcrAfterTry(OcrPagesLoop(file, 1, cfg, 0))

\* the exceptions _extract_ocr catches
FallbackFaultsNoEmpty ==
    {"PdfPlumberExtractionError", "ManyCidError", "ManyUnreadableCharError"}

FallbackFaults ==
    {"PdfPlumberEmptyContent", "PdfPlumberExtractionError", "ManyCidError",
     "ManyUnreadableCharError"}

OcrAfterPlumber(got) ==
    IF got.raised = "-"
    THEN [calls |-> <<"pdfplumber">>, fault |-> "-", cause |-> "-",
          extractor |-> "pdfplumber", raised |-> FALSE]
    ELSE IF got.raised \in FallbackFaults
         THEN [calls |-> <<"pdfplumber", "doctr">>, fault |-> got.raised,
               cause |-> got.cause, extractor |-> "doctr", raised |-> FALSE]
         ELSE [calls |-> <<"pdfplumber">>, fault |-> got.raised,
               cause |-> got.cause, extractor |-> "-", raised |-> TRUE]

\* _extract_ocr(file_content): the extractors called, the fault of pdfplumber,
\* the extractor whose words are returned, and whether an exception leaves it
extract_ocr(file, cfg) ==
    IF cfg.use_doctr
    THEN [calls |-> <<"doctr">>, fault |-> "-", cause |-> "-",
          extractor |-> "doctr", raised |-> FALSE]
    ELSE OcrAfterPlumber(plumber_extract_words(file, cfg))

OcrFiles ==
    UNION { [1..n -> OcrPages] : n \in 1..MaxBatchPages }

\* the settings tried; the two thresholds differ, so that a page can pass one
\* check and fail the other
OcrConfigs ==
    { cfg \in [use_doctr : BOOLEAN, check_pdfplumber_alignment : BOOLEAN,
               extract_visual_elements : BOOLEAN,
               cid_error_threshold : {1, 2}, unreadable_char_threshold : {1, 2},
               batches : 1..MaxOcrBatches] :
        cfg.cid_error_threshold # cfg.unreadable_char_threshold }

InitOcr ==
    /\ ocr_cfg \in OcrConfigs
    /\ ocr_pc = "extract"
    /\ ocr_file = <<>>
    /\ ocr_calls = <<>>
    /\ ocr_fault = "-"
    /\ ocr_layout = "-"
    /\ ocr_done = <<>>
    /\ IdleOutsideOcr

\* _process_extract: layout_ocr = self._extract_ocr(file_content), on the next
\* batch of load_pdf_batch
ExtractOcr ==
    /\ ocr_pc = "extract"
    /\ \E file \in OcrFiles :
         \E got \in {extract_ocr(file, ocr_cfg)} :
            /\ ocr_file' = file
            /\ ocr_calls' = got.calls
            /\ ocr_fault' = got.fault
            /\ ocr_layout' = got.extractor
            /\ ocr_pc' = IF got.raised THEN "raised" ELSE "align"
    /\ UNCHANGED <<ocr_cfg, ocr_done>>
    /\ UNCHANGED OutsideOcr

\* default_pipeline: ensure_ocr_alignment, when it is called; whether the
\* words match the merged layout is an input
EnsureOcrAlignment ==
    /\ ocr_pc = "align"
    /\ \E misaligned \in BOOLEAN :
         IF ~ocr_cfg.use_doctr /\ ocr_cfg.check_pdfplumber_alignment /\ misaligned
         THEN /\ ocr_calls' = Append(ocr_calls, "doctr")
              /\ ocr_layout' = "doctr"
         ELSE UNCHANGED <<ocr_calls, ocr_layout>>
    /\ ocr_pc' = "build"
    /\ UNCHANGED <<ocr_cfg, ocr_file, ocr_fault, ocr_done>>
    /\ UNCHANGED OutsideOcr

\* default_pipeline: _build_document(results["layout_ocr"], merged_layout);
\* the loop then goes to the next batch, where file_content and results are new
BuildDocument ==
    /\ ocr_pc = "build"
    /\ ocr_done' = Append(ocr_done, [fault |-> ocr_fault, extractor |-> ocr_layout])
    /\ ocr_pc' = IF Len(ocr_done) + 1 < ocr_cfg.batches THEN "extract" ELSE "end"
    /\ ocr_file' = <<>>
    /\ ocr_calls' = <<>>
    /\ ocr_fault' = "-"
    /\ ocr_layout' = "-"
    /\ UNCHANGED ocr_cfg
    /\ UNCHANGED OutsideOcr

NextOcr == ExtractOcr \/ EnsureOcrAlignment \/ BuildDocument

SpecOcr == InitOcr /\ [][NextOcr]_vars

\* the words of a page that satisfy neither check: more than num / ThrDen of
\* the words of the page hold a CID error, or an unreadable character
ManyOf(words, cids, num) == Cardinality(cids) * ThrDen > num * Len(words)

OcrTrigger(file, cfg) ==
    \/ \E i \in 1..Len(file) :
          \/ file[i].broken
          \/ ManyOf(file[i].words, {k \in 1..Len(file[i].words) : file[i].words[k].cid},
                    cfg.cid_error_threshold)
          \/ ManyOf(file[i].words,
                    {k \in 1..Len(file[i].words) : file[i].words[k].unreadable},
                    cfg.unreadable_char_threshold)
    \/ \A i \in 1..Len(file) :
          /\ file[i].words = <<>>
          /\ (file[i].lines = 0 \/ ~cfg.extract_visual_elements)

PlumberCalls(calls) == Cardinality({i \in 1..Len(calls) : calls[i] = "pdfplumber"})

\* C21: without use_doctr every batch is first given to PdfPlumber, once, also
\* after a batch that fell back; when PdfPlumber finds too many CID errors or
\* unreadable characters on a page, finds no content or fails, a named fault
\* is raised and the OCR layout of the batch is Doctr's
C21_FallbackPerBatch ==
    (ocr_pc \in {"align", "build", "raised"} /\ ~ocr_cfg.use_doctr) =>
        /\ ocr_calls[1] = "pdfplumber"
        /\ PlumberCalls(ocr_calls) = 1
        /\ OcrTrigger(ocr_file, ocr_cfg) =>
              /\ ocr_fault \in FallbackFaults
              /\ ocr_layout = "doctr"
              /\ ocr_pc # "raised"

\* a second batch that PdfPlumber reads after the first one fell back to Doctr
C21_FallbackWitness ==
    /\ ocr_pc = "build"
    /\ ~ocr_cfg.use_doctr
    /\ Len(ocr_done) = 1
    /\ ocr_done[1].fault = "PdfPlumberExtractionError"
    /\ ocr_done[1].extractor = "doctr"
    /\ ocr_calls = <<"pdfplumber">>
    /\ ocr_layout = "pdfplumber"

(* ---------------------------------------------------------------------- *)
(* structuration/build_lines.py: lines built from the words of the OCR    *)
(* layout.  A word is [id, x0, y0, x1, y1, page, vertical]; a line holds  *)
(* its box, its page and the words of its content.                        *)
(* ---------------------------------------------------------------------- *)
\* most words of an OCR layout
MaxLineWords == 3

\* build_lines.match_interval(word, prev_word, num / ThrDen)
match_interval_words(word, prev_word, num) ==
    IF word.vertical
    THEN ~ \/ word.x0 * ThrDen > prev_word.x0 * ThrDen + (prev_word.x1 - prev_word.x0) * num
           \/ word.x1 * ThrDen < prev_word.x1 * ThrDen - (prev_word.x1 - prev_word.x0) * num
    ELSE ~ \/ word.y0 * ThrDen > prev_word.y0 * ThrDen + (prev_word.y1 - prev_word.y0) * num
           \/ word.y1 * ThrDen < prev_word.y1 * ThrDen - (prev_word.y1 - prev_word.y0) * num

\* the three conditions under which build_lines_from_ocr_order leaves the line
BreaksLine(word, prev_word, num) ==
    \/ word.x1 < prev_word.x0
    \/ ~match_interval_words(word, prev_word, num)
    \/ word.vertical # prev_word.vertical

\* Line.create(..., content=[word])
NewLine(word) ==
    [x0 |-> word.x0, y0 |-> word.y0, x1 |-> word.x1, y1 |-> word.y1,
     page |-> word.page, content |-> <<word>>]

\* the elif branch: the word joins the line
LineWith(line, word) ==
    [x0 |-> Min2(line.x0, word.x0), y0 |-> Min2(line.y0, word.y0),
     x1 |-> Max2(line.x1, word.x1), y1 |-> Max2(line.y1, word.y1),
     page |-> line.page, content |-> Append(line.content, word)]

\* the loop over words[1:]; prev is 0 while prev_word is None, else the
\* position of prev_word; returns the lines of the page, the last one included
RECURSIVE OcrOrderLoop(_, _, _, _, _, _)
OcrOrderLoop(words, i, prev, line, layout_lines, num) ==
    IF i > Len(words) THEN Append(layout_lines, line)
    ELSE IF prev # 0 /\ BreaksLine(words[i], words[prev], num)
         THEN OcrOrderLoop(words, i + 1, i, NewLine(words[i]),
                           Append(layout_lines, line), num)
         ELSE OcrOrderLoop(words, i + 1, i, LineWith(line, words[i]),
                           layout_lines, num)

\* the lines of one page
OcrOrderPage(words, num) ==
    IF words = <<>> THEN <<>>
    ELSE OcrOrderLoop(words, 2, 0, NewLine(words[1]), <<>>, num)

RECURSIVE OcrOrderPages(_, _, _)
OcrOrderPages(ocr, p, num) ==
    IF p >= page_count(ocr) THEN <<>>
    ELSE OcrOrderPage(get_elements_by_page(ocr, p), num)
         \o OcrOrderPages(ocr, p + 1, num)

build_lines_from_ocr_order(ocr, num) == OcrOrderPages(ocr, 0, num)

LWord(id, a, b, c, d, v) ==
    [id |-> id, x0 |-> a, y0 |-> b, x1 |-> c, y1 |-> d, vertical |-> v]

\* the words tried: two words of one text line, a word on the next text line,
\* two words shifted down by a fifth and by a half of the height, a vertical word
LineWords ==
    { LWord(1, 0, 0, 10, 10, FALSE),
      LWord(2, 20, 0, 30, 10, FALSE),
      LWord(3, 0, 20, 10, 30, FALSE),
      LWord(4, 40, 2, 50, 12, FALSE),
      LWord(5, 40, 5, 50, 15, FALSE),
      LWord(6, 60, 0, 70, 40, TRUE) }

\* the words ws, the first `first` of them on page 0, the rest on page 1
WordLayout(ws, first) ==
    [i \in 1..Len(ws) |->
        [id |-> ws[i].id, x0 |-> ws[i].x0, y0 |-> ws[i].y0, x1 |-> ws[i].x1,
         y1 |-> ws[i].y1, vertical |-> ws[i].vertical,
         page |-> IF i <= first THEN 0 ELSE 1]]

\* sum of the numbers of a sequence
RECURSIVE SeqSum(_)
SeqSum(s) == IF s = <<>> THEN 0 ELSE Head(s) + SeqSum(Tail(s))

\* match_avg_interval(line, elem, num / ThrDen, vertical): the averages are
\* compared after multiplying by len(line)
match_avg_interval(line, elem, num, vertical) ==
    LET n == Len(line)
        avg0 == SeqSum([i \in 1..n |-> IF vertical THEN line[i].x0 ELSE line[i].y0])
        avg1 == SeqSum([i \in 1..n |-> IF vertical THEN line[i].x1 ELSE line[i].y1])
        e0 == n * (IF vertical THEN elem.x0 ELSE elem.y0)
        e1 == n * (IF vertical THEN elem.x1 ELSE elem.y1)
    IN  /\ e0 <= avg1
        /\ avg0 <= e1
        /\ (Min2(avg1, e1) - Max2(avg0, e0)) * ThrDen > num * (e1 - e0)

\* min(elem, word, key=x0) and max(elem, word, key=x0): elem on a tie
LeftOf(elem, word) == IF word.x0 < elem.x0 THEN word ELSE elem
RightOf(elem, word) == IF word.x0 > elem.x0 THEN word ELSE elem

\* mutant: min and max exchanged
no_columns_between_elem_and_line_swapped(line, elem, cbp) ==
    \A k \in 1..Len(line) :
        no_columns_between_elements(RightOf(elem, line[k]), LeftOf(elem, line[k]),
                                    ColumnsOfPage(cbp, elem.page))

no_columns_between_elem_and_line(line, elem, cbp) ==
    \A k \in 1..Len(line) :
        no_columns_between_elements(LeftOf(elem, line[k]), RightOf(elem, line[k]),
                                    ColumnsOfPage(cbp, elem.page))

\* word_is_in_a_line: the position in batch of the line the word is appended
\* to, 0 when it returns False
LineOfWord(word, batch, num, cbp, vertical) ==
    LET fits == {k \in 1..Len(batch) :
                    /\ match_avg_interval(batch[k], word, num, vertical)
                    /\ (cbp = <<>> \/ no_columns_between_elem_and_line(batch[k], word, cbp))}
    IN  IF fits = {} THEN 0 ELSE CHOOSE k \in fits : \A j \in fits : k <= j

\* word_is_in_a_line, else batch.append([word])
BatchWith(word, batch, k) ==
    IF k = 0 THEN Append(batch, <<word>>)
    ELSE [batch EXCEPT ![k] = Append(@, word)]

\* the loop over the words of one page: batch + vertical_batch
RECURSIVE BboxBatches(_, _, _, _, _, _)
BboxBatches(words, i, batch, vertical_batch, num, cbp) ==
    IF i > Len(words) THEN batch \o vertical_batch
    ELSE IF words[i].type = "visualElement"
         THEN BboxBatches(words, i + 1, batch, vertical_batch, num, cbp)
    ELSE IF words[i].vertical
         THEN BboxBatches(words, i + 1, batch,
                  BatchWith(words[i], vertical_batch,
                            LineOfWord(words[i], vertical_batch, num, cbp, TRUE)),
                  num, cbp)
    ELSE BboxBatches(words, i + 1,
             BatchWith(words[i], batch, LineOfWord(words[i], batch, num, cbp, FALSE)),
             vertical_batch, num, cbp)

\* all_batchs over the pages
RECURSIVE AllBatches(_, _, _, _)
AllBatches(ocr, p, num, cbp) ==
    IF p >= page_count(ocr) THEN <<>>
    ELSE BboxBatches(get_elements_by_page(ocr, p), 1, <<>>, <<>>, num, cbp)
         \o AllBatches(ocr, p + 1, num, cbp)

\* Line.create over the words of a batch, content sorted by x0
LineFrom(line) ==
    [type |-> "line",
     x0 |-> SeqMin([i \in 1..Len(line) |-> line[i].x0]),
     y0 |-> SeqMin([i \in 1..Len(line) |-> line[i].y0]),
     x1 |-> SeqMax([i \in 1..Len(line) |-> line[i].x1]),
     y1 |-> SeqMax([i \in 1..Len(line) |-> line[i].y1]),
     page |-> line[1].page,
     content |-> SortedBy(line, [i \in 1..Len(line) |-> <<line[i].x0>>])]

\* the visual elements in the order of the page loop
RECURSIVE PageVisuals(_, _)
PageVisuals(ocr, p) ==
    IF p >= page_count(ocr) THEN <<>>
    ELSE get_visual_elements(get_elements_by_page(ocr, p)) \o PageVisuals(ocr, p + 1)

LinesOf(batches) == [k \in 1..Len(batches) |-> LineFrom(batches[k])]

\* build_lines_from_bbox(layout_ocr, num / ThrDen, columns)
build_lines_from_bbox(ocr, num, cbp) ==
    sort_by_bbox(LinesOf(AllBatches(ocr, 0, num, cbp)) \o PageVisuals(ocr, 0))

BWord(id, a, b, c, d, v, t) ==
    [id |-> id, type |-> t, x0 |-> a, y0 |-> b, x1 |-> c, y1 |-> d, vertical |-> v,
     content |-> <<>>]

\* the words tried: three words of one text line, a word half a line lower, a
\* word on the next text line, a vertical word and a visual element
BboxWords ==
    { BWord(1, 0, 0, 10, 10, FALSE, "word"),
      BWord(2, 20, 0, 30, 10, FALSE, "word"),
      BWord(3, 40, 0, 50, 10, FALSE, "word"),
      BWord(4, 40, 4, 50, 14, FALSE, "word"),
      BWord(5, 0, 20, 10, 30, FALSE, "word"),
      BWord(6, 60, 0, 70, 40, TRUE, "word"),
      BWord(7, 14, 0, 16, 40, FALSE, "visualElement") }

\* the column maps tried: None, a separator on page 0 over the whole height,
\* one over the first text line only with a second page, one below the first line
ColumnMaps ==
    { <<>>,
      << <<<<15, 0, 40>>>> >>,
      << <<<<35, 0, 12>>>>, <<<<15, 0, 40>>, <<35, 0, 40>>>> >>,
      << <<<<15, 12, 40>>>>, <<>> >> }

BboxLayout(ws, first) ==
    [i \in 1..Len(ws) |-> ws[i] @@ [page |-> IF i <= first THEN 0 ELSE 1]]

InitLines ==
    /\ bl_ocr = <<>>
    /\ bl_threshold = 0
    /\ bl_lines = <<>>
    /\ bl_pc = "build"
    /\ bl_columns = <<>>
    /\ IdleOutsideLines

\* build_lines_from_ocr_order(layout_ocr, threshold)
BuildLinesFromOcrOrder ==
    /\ bl_pc = "build"
    /\ \E n \in 1..MaxLineWords :
          \E ws \in [1..n -> LineWords], first \in 0..n, num \in 1..2 :
              /\ bl_ocr' = WordLayout(ws, first)
              /\ bl_threshold' = num
              /\ bl_lines' = build_lines_from_ocr_order(bl_ocr', num)
    /\ bl_pc' = "ocr_order"
    /\ bl_columns' = <<>>
    /\ UNCHANGED OutsideLines

\* build_lines_from_bbox(layout_ocr, threshold, columns)
BuildLinesFromBbox ==
    /\ bl_pc = "build"
    /\ \E n \in 1..MaxLineWords :
          \E ws \in [1..n -> BboxWords], first \in 0..n, num \in 2..3,
             cbp \in ColumnMaps :
              /\ bl_ocr' = BboxLayout(ws, first)
              /\ bl_threshold' = num
              /\ bl_columns' = cbp
              /\ bl_lines' = build_lines_from_bbox(bl_ocr', num, cbp)
    /\ bl_pc' = "bbox"
    /\ UNCHANGED OutsideLines

NextLines == BuildLinesFromOcrOrder \/ BuildLinesFromBbox

SpecLines == InitLines /\ [][NextLines]_vars

\* the positions, among the words of its page, of the first words of the lines
RECURSIVE LineStarts(_, _, _)
LineStarts(lines, k, pos) ==
    IF k > Len(lines) THEN {}
    ELSE {pos} \cup LineStarts(lines, k + 1, pos + Len(lines[k].content))

PageLineStarts(lines, p) ==
    LineStarts(SelectSeq(lines, LAMBDA line : line.page = p), 1, 1)

\* C22: on every page, from the second word on, a word starts a new line
\* exactly when it is left of the word before it, does not match its interval
\* within the tolerance, or differs from it in the vertical flag
C22_BreakAtEveryWord ==
    bl_pc = "ocr_order" =>
        \A p \in 0..(page_count(bl_ocr) - 1) :
            \A i \in 2..Len(get_elements_by_page(bl_ocr, p)) :
                (i \in PageLineStarts(bl_lines, p)) <=>
                    BreaksLine(get_elements_by_page(bl_ocr, p)[i],
                               get_elements_by_page(bl_ocr, p)[i - 1], bl_threshold)

(* ---------------------------------------------------------------------- *)
(* utils.py: merge_layouts.  A part is a layout with the pages it was     *)
(* extracted from.  Words are objects: `words` maps the reference of each *)
(* word object of the layout to its fields [val, page], val standing for  *)
(* all fields but the page; the content of a paragraph is a sequence of   *)
(* references, so one object can occur several times and two objects can  *)
(* be equal.  A table holds its cell objects in `objs` and refers to them *)
(* in `cells`.  Python's `in` on a list compares with ==, that is by the  *)
(* fields of the objects.                                                 *)
(* ---------------------------------------------------------------------- *)
\* most word objects of a layout
MaxObjects == 3
\* most elements of a layout
MaxMergeElems == 2

\* corresp[i] of merge_layouts: pages = sorted(pages); {i: pages[i]}
Corresp(pages, i) == SortedBy(pages, [k \in 1..Len(pages) |-> <<pages[k]>>])[i + 1]

\* word in already_processed / cell in modified
EqualIn(objs, ref, seen) == \E k \in 1..Len(seen) : objs[seen[k]] = objs[ref]

\* the loop over elem.content: the words after it, and already_processed
RECURSIVE RemapWords(_, _, _, _, _)
RemapWords(content, k, words, already_processed, pages) ==
    IF k > Len(content) THEN [words |-> words, already_processed |-> already_processed]
    ELSE IF EqualIn(words, content[k], already_processed)
         THEN RemapWords(content, k + 1, words, already_processed, pages)
         ELSE RemapWords(content, k + 1,
                         [words EXCEPT ![content[k]].page = Corresp(pages, @)],
                         Append(already_processed, content[k]), pages)

\* the loop over elem.cells: the cell objects after it
RECURSIVE RemapCells(_, _, _, _, _)
RemapCells(refs, k, objs, modified, pages) ==
    IF k > Len(refs) THEN objs
    ELSE IF EqualIn(objs, refs[k], modified)
         THEN RemapCells(refs, k + 1, objs, modified, pages)
         ELSE RemapCells(refs, k + 1,
                         [objs EXCEPT ![refs[k]].page = Corresp(pages, @)],
                         Append(modified, refs[k]), pages)

\* one turn of the loop over layout.root, for an element that is no paragraph
RemapElement(elem, pages) ==
    [elem EXCEPT
        !.page = Corresp(pages, @),
        !.objs = IF elem.kind = "tableContent" /\ elem.cells # <<>>
                 THEN RemapCells(elem.cells, 1, elem.objs, <<>>, pages)
                 ELSE @]

\* the loop over layout.root of one part: the elements appended to
\* merged_layout and the word objects of the layout
RECURSIVE RemapLayout(_, _, _, _, _, _)
RemapParagraph(elems, k, got, pages, merged_layout) ==
    RemapLayout(elems, k + 1, got.words, got.already_processed, pages,
                Append(merged_layout, [elems[k] EXCEPT !.page = Corresp(pages, @)]))

RemapLayout(elems, k, words, already_processed, pages, merged_layout) ==
    IF k > Len(elems) THEN [root |-> merged_layout, words |-> words]
    ELSE IF elems[k].kind = "paragraph"
         THEN RemapParagraph(elems, k,
                  RemapWords(elems[k].content, 1, words, already_processed, pages),
                  pages, merged_layout)
         ELSE RemapLayout(elems, k + 1, words, already_processed, pages,
                          Append(merged_layout, RemapElement(elems[k], pages)))

\* merge_layouts(*layout_and_pages): the merged_layout elems, sorted by page, and the
\* word objects of every part
RECURSIVE MergeParts(_, _, _, _)
MergeAfterPart(parts, n, merged_layout, heaps, got) ==
    MergeParts(parts, n + 1, merged_layout \o got.root, Append(heaps, got.words))

MergeParts(parts, n, merged_layout, heaps) ==
    IF n > Len(parts) THEN [root |-> sort_by_page(merged_layout), words |-> heaps]
    ELSE MergeAfterPart(parts, n, merged_layout, heaps,
             RemapLayout(parts[n].root, 1, parts[n].words, <<>>, parts[n].pages, <<>>))

merge_layouts(parts) == MergeParts(parts, 1, <<>>, <<>>)

\* ---- the layouts merged
WordObjects == [val : {"a", "b"}, page : {0, 1}]

RefSeqs(refs) == UNION { [1..n -> refs] : n \in 1..2 }

MergeParagraphs(words) ==
    UNION { { [kind |-> "paragraph", page |-> p, content |-> c, cells |-> <<>>,
               objs |-> <<>>] :
                c \in RefSeqs({ref \in DOMAIN words : words[ref].page = p}) } :
            p \in 0..1 }

\* tables of one cell, of a spanning cell held twice, of two equal cells and
\* of two different cells
MergeTables ==
    { [kind |-> "tableContent", page |-> p, content |-> <<>>, cells |-> t[1],
       objs |-> [k \in 1..Len(t[2]) |-> [val |-> t[2][k], page |-> p]]] :
        p \in 0..1,
        t \in { << <<1>>, <<"a">> >>, << <<1, 1>>, <<"a">> >>,
                << <<1, 2>>, <<"a", "a">> >>, << <<1, 2>>, <<"a", "b">> >> } }

\* every element of a part knows its part and its position in it
Tagged(elems, n) ==
    [k \in 1..Len(elems) |->
        [kind |-> elems[k].kind, page |-> elems[k].page, content |-> elems[k].content,
         cells |-> elems[k].cells, objs |-> elems[k].objs, part |-> n, id |-> k]]

\* a first batch of one page, for the parts that follow one
FirstPart ==
    [root |-> Tagged(<< [kind |-> "paragraph", page |-> 0, content |-> <<1>>,
                         cells |-> <<>>, objs |-> <<>>] >>, 1),
     words |-> << [val |-> "a", page |-> 0] >>,
     pages |-> <<0>>]

InitMerge ==
    /\ mg_parts = <<>>
    /\ mg_out = [root |-> <<>>, words |-> <<>>]
    /\ mg_pc = "merge"
    /\ IdleOutsideMerge

\* document = merge_layouts(*doc_parts)
MergeLayouts ==
    /\ mg_pc = "merge"
    /\ \E words \in [1..MaxObjects -> WordObjects], n \in 1..MaxMergeElems,
          pages \in {<<0, 1>>, <<1, 2>>, <<2, 3>>, <<3, 2>>}, follows \in BOOLEAN :
          \E elems \in [1..n -> MergeParagraphs(words) \cup MergeTables] :
              /\ follows => pages[1] # 0
              /\ mg_parts' =
                    IF follows
                    THEN <<FirstPart, [root |-> Tagged(elems, 2), words |-> words,
                                       pages |-> pages]>>
                    ELSE << [root |-> Tagged(elems, 1), words |-> words,
                             pages |-> pages] >>
              /\ mg_out' = merge_layouts(mg_parts')
    /\ mg_pc' = "merged"
    /\ UNCHANGED OutsideMerge

NextMerge == MergeLayouts

SpecMerge == InitMerge /\ [][NextMerge]_vars

\* the element of the merged layout that was element k of part n
MergedElement(out, n, k) ==
    out.root[CHOOSE i \in 1..Len(out.root) : out.root[i].part = n /\ out.root[i].id = k]

\* C23: after merge_layouts every element, every word of a paragraph and
\* every cell of a table is on the global page of its batch-local page
C23_EveryObjectRemapped ==
    mg_pc = "merged" =>
        \A n \in 1..Len(mg_parts) :
            \A k \in 1..Len(mg_parts[n].root) :
                /\ MergedElement(mg_out, n, k).page
                       = Corresp(mg_parts[n].pages, mg_parts[n].root[k].page)
                /\ \A j \in 1..Len(mg_parts[n].root[k].content) :
                       mg_out.words[n][mg_parts[n].root[k].content[j]].page
                           = Corresp(mg_parts[n].pages,
                                     mg_parts[n].words[mg_parts[n].root[k].content[j]].page)
                /\ \A j \in 1..Len(mg_parts[n].root[k].cells) :
                       MergedElement(mg_out, n, k).objs[mg_parts[n].root[k].cells[j]].page
                           = Corresp(mg_parts[n].pages, mg_parts[n].root[k].page)

(* ---------------------------------------------------------------------- *)
(* enrichment/layout_modifier.py: joining the texts cut by a page break.  *)
(* An element is [type, page, inferred, content, pages]; the content of a *)
(* word is a sequence of characters; pages = <<>> stands for metadata     *)
(* without "pages". The boxes of the elements are valid.                  *)
(* ---------------------------------------------------------------------- *)
\* most elements of a layout
MaxTextElems == 4

Whitespace == {" "}
UpperCase == {"A"}

\* str.strip()
RECURSIVE StripLeft(_)
StripLeft(chars) ==
    IF chars # <<>> /\ Head(chars) \in Whitespace THEN StripLeft(Tail(chars)) ELSE chars

strip(chars) == Reverse(StripLeft(Reverse(StripLeft(chars))))

\* str.endswith(".")
EndsWithDot(chars) == chars # <<>> /\ chars[Len(chars)] = "."

\* Paragraph.merge_element(other) on two elements of one class: self
\* afterwards
merge_paragraph(self, next_elem) ==
    [self EXCEPT
        !.content = @ \o next_elem.content,
        !.pages = (IF @ = <<>> THEN <<self.page>> ELSE @) \o <<next_elem.page>>]

\* the condition of join_text_overlapping_pages without the test of the
\* last word of the element
TextConditionAnyEnd(element, next_elem) ==
    /\ next_elem.type = "text"
    /\ next_elem.page = element.page + 1
    /\ element.content # <<>>
    /\ next_elem.content # <<>>
    /\ next_elem.content[1] # <<>>
    /\ next_elem.content[1][1] \notin UpperCase

\* the condition of join_text_overlapping_pages on an element and its
\* candidate
TextCondition(element, next_elem) ==
    /\ next_elem.type = "text"
    /\ next_elem.page = element.page + 1
    /\ element.content # <<>>
    /\ ~EndsWithDot(strip(element.content[Len(element.content)]))
    /\ next_elem.content # <<>>
    /\ next_elem.content[1] # <<>>
    /\ next_elem.content[1][1] \notin UpperCase

RECURSIVE TextLoop(_, _, _, _)
\* one turn of the loop on a Text that is not inferred, next_elem_pos being
\* the position of its candidate (0: None)
TextTurn(lay, current_elem, remove_index, joined, next_elem_pos) ==
    IF next_elem_pos = 0 THEN TextLoop(lay, current_elem + 1, remove_index, joined)
    ELSE IF TextCondition(lay[current_elem], lay[next_elem_pos])
    THEN TextLoop([lay EXCEPT ![current_elem] = merge_paragraph(@, lay[next_elem_pos])],
                  current_elem + 1,
                  remove_index \cup {next_elem_pos},
                  joined \cup {<<current_elem, next_elem_pos>>})
    ELSE TextLoop(lay, current_elem + 1, remove_index, joined)

\* the loop of join_text_overlapping_pages: [root, remove_index, joined],
\* joined being the pairs <<current_elem, next_elem_pos>> merged
TextLoop(lay, current_elem, remove_index, joined) ==
    IF current_elem > Len(lay)
    THEN [root |-> lay, remove_index |-> remove_index, joined |-> joined]
    ELSE IF \/ current_elem \in remove_index
            \/ lay[current_elem].type # "text"
            \/ lay[current_elem].inferred
    THEN TextLoop(lay, current_elem + 1, remove_index, joined)
    ELSE TextTurn(lay, current_elem, remove_index, joined,
                  get_next_candidate_position(current_elem, lay))

\* the elements at remove_index popped, from the last to the first
TextPopped(r) ==
    [root |-> Pick(r.root, {k \in 1..Len(r.root) : k \notin r.remove_index}),
     joined |-> r.joined]

\* join_text_overlapping_pages(layout): layout.root afterwards, and the pairs
\* merged
join_text_overlapping_pages(lay) == TextPopped(TextLoop(lay, 1, {}, {}))

\* ---- the layouts joined
TElem(t, inferred, content) ==
    [type |-> t, page |-> 0, inferred |-> inferred, content |-> content, pages |-> <<>>]

\* texts ending in a letter, in a dot, in a dot and a space, a text starting
\* with a capital, a text without words, an inferred text, a footer, a
\* visual element, a title
TextChoices ==
    { TElem("text", FALSE, << <<"a">>, <<"b">> >>),
      TElem("text", FALSE, << <<"a">>, <<"b", ".">> >>),
      TElem("text", FALSE, << <<"a">>, <<"b", ".", " ">> >>),
      TElem("text", FALSE, << <<"A">>, <<"b">> >>),
      TElem("text", FALSE, <<>>),
      TElem("text", TRUE, << <<"c">> >>),
      TElem("footer", FALSE, << <<"1">> >>),
      TElem("visualElement", FALSE, <<>>),
      TElem("title", FALSE, << <<"T">> >>) }

\* the elements up to position brk on page 0, the others on page second
TextLayout(elems, brk, second) ==
    [k \in 1..Len(elems) |-> [elems[k] EXCEPT !.page = IF k <= brk THEN 0 ELSE second]]

InitText ==
    /\ tx_layout = <<>>
    /\ tx_before = <<>>
    /\ tx_joined = {}
    /\ tx_pc = "enrich"
    /\ IdleOutsideText

\* LayoutModifier.join_text_overlapping_pages(layout)
JoinTextOverlappingPages ==
    /\ tx_pc = "enrich"
    /\ \E n \in 1..MaxTextElems, brk \in 1..MaxTextElems, second \in 1..2 :
          \E elems \in [1..n -> TextChoices] :
             /\ brk <= n
             /\ brk = n => second = 1
             /\ tx_before' = TextLayout(elems, brk, second)
             /\ \E r \in {join_text_overlapping_pages(TextLayout(elems, brk, second))} :
                   /\ tx_layout' = r.root
                   /\ tx_joined' = r.joined
    /\ tx_pc' = "joined"
    /\ UNCHANGED OutsideText

NextText == JoinTextOverlappingPages

SpecText == InitText /\ [][NextText]_vars

\* the positions strictly between two positions of a layout
Inside(pair) == (pair[1] + 1)..(pair[2] - 1)

\* a pair of join_text_overlapping_pages: two texts, the second on the next
\* page, the first not ending with a dot, the second not starting with a
\* capital
TextPair(a, b) ==
    /\ a.type = "text" /\ b.type = "text"
    /\ b.page = a.page + 1
    /\ a.content # <<>> /\ ~EndsWithDot(strip(a.content[Len(a.content)]))
    /\ b.content # <<>> /\ b.content[1] # <<>> /\ b.content[1][1] \notin UpperCase

IdBag(lay) ==
    [i \in {lay[k].id : k \in 1..Len(lay)} |->
        Cardinality({k \in 1..Len(lay) : lay[k].id = i})]

\* C26: the output of sort_layout_by_reading_order holds every element of
\* its input exactly once, and the elements the column traversal did not
\* reach after all those it reached
C26_SortPermutes ==
    [][SortByReadingOrder =>
        /\ Len(layout') = Len(layout)
        /\ IdBag(layout') = IdBag(layout)
        /\ \A k \in 1..Len(TraversalOrder(layout, columns).ordered) :
              k <= Len(layout')
              /\ layout'[k].id = TraversalOrder(layout, columns).ordered[k].id]_vars

(* ---------------------------------------------------------------------- *)
(* structuration/document_builder.py: build_document with look_for_columns *)
(* on a layout of paragraphs and an OCR layout of lines and visual         *)
(* elements: detect_columns and the sort, populate_paragraphs and the      *)
(* visual elements, detect_columns and the sort again. An element carries  *)
(* the fields of both passes: id, ext (metadata["extended_x"]) and columns *)
(* with those of the populated elements.                                   *)
(* ---------------------------------------------------------------------- *)
\* most elements of the layout given to build_document
MaxTitleElems == 3
\* most elements of the OCR layout
MaxTitleOcr == 2

\* the metadata of an element a layout extractor detected
Detected(e, n) == e @@ [id |-> n, ext |-> <<>>, columns |-> Unset]

\* a narrow title, a title over the page, the text under the narrow title,
\* a text right of it, a text right of the narrow title on its band
TitleCatalogue ==
    << PElem("title", 0, 20, 30, 60, 38),
       PElem("title", 0, 0, 10, 200, 20),
       PElem("text", 0, 0, 40, 80, 200),
       PElem("text", 0, 120, 40, 160, 80),
       PElem("text", 0, 100, 24, 180, 36) >>

\* a word in the text under the title, a word beside the title on its band,
\* a rule beside the title on its band, a word at the bottom of the page
TitleOcr ==
    << LineOf(<<PWord(<<"a">>, 0, 8, 50, 28, 60)>>),
       LineOf(<<PWord(<<"b">>, 0, 64, 30, 76, 38)>>),
       PElem("visualElement", 0, 62, 32, 78, 36),
       LineOf(<<PWord(<<"c">>, 0, 100, 190, 120, 198)>>) >>

\* insert_visual_elements_in_layout(layout_ocr, layout, 0.5): layout.root
\* afterwards
RECURSIVE InsertVisuals(_, _)
InsertVisuals(visual_elements, r) ==
    IF visual_elements = <<>> THEN r
    ELSE IF \E k \in 1..Len(r) :
                /\ r[k].page = Head(visual_elements).page
                /\ Within(Head(visual_elements), r[k], 2, ThrDen)
         THEN InsertVisuals(Tail(visual_elements), r)
         ELSE InsertVisuals(Tail(visual_elements), Append(r, Head(visual_elements)))

insert_visual_elements_in_layout(ocr, r) == InsertVisuals(get_visual_elements(ocr), r)

\* the elements that are no detections of the layout extractor, with the
\* metadata fields of the others
WithMetadata(r) ==
    [k \in 1..Len(r) |-> IF "id" \in DOMAIN r[k] THEN r[k] ELSE Detected(r[k], 100 + k)]

InitTitle ==
    /\ \E K \in SUBSET (1..Len(TitleCatalogue)), J \in SUBSET (1..Len(TitleOcr)) :
          /\ K # {} /\ Cardinality(K) <= MaxTitleElems
          /\ Cardinality(J) <= MaxTitleOcr
          /\ tb_layout = [k \in 1..Cardinality(K) |-> Detected(Pick(TitleCatalogue, K)[k], k)]
          /\ tb_ocr = Pick(TitleOcr, J)
    /\ tb_columns = <<>>
    /\ tb_pc = "detect_columns"
    /\ IdleOutsideTitle

\* columns = detect_columns(layout, layout_ocr)
TitleDetectColumns ==
    /\ tb_pc = "detect_columns"
    /\ \E r \in {detect_columns(tb_layout, WithMetadata(tb_ocr), TRUE)} :
          /\ tb_layout' = r.layout
          /\ tb_columns' = r.columns_by_page
    /\ tb_pc' = "sort"
    /\ UNCHANGED tb_ocr
    /\ UNCHANGED OutsideTitle

\* layout = sort_layout_by_reading_order(layout, columns)
TitleSort ==
    /\ tb_pc \in {"sort", "sort_again"}
    /\ tb_layout' = sort_layout_by_reading_order(tb_layout, tb_columns)
    /\ tb_pc' = IF tb_pc = "sort" THEN "populate" ELSE "refine"
    /\ UNCHANGED <<tb_ocr, tb_columns>>
    /\ UNCHANGED OutsideTitle

\* populate_paragraphs(layout_ocr, layout, ..., columns_by_page=columns,
\* threshold_word=0.25), then insert_visual_elements_in_layout
TitlePopulate ==
    /\ tb_pc = "populate"
    /\ tb_layout' = WithMetadata(insert_visual_elements_in_layout(tb_ocr,
                        populate_paragraphs(tb_ocr, tb_layout, FALSE, tb_columns, 1)))
    /\ tb_pc' = "detect_again"
    /\ UNCHANGED <<tb_ocr, tb_columns>>
    /\ UNCHANGED OutsideTitle

\* metadata["columns"] popped; layout.sort_by_bbox();
\* columns = detect_columns(layout)
TitleDetectAgain ==
    /\ tb_pc = "detect_again"
    /\ \E r \in {detect_columns(BeforeSecondPass(tb_layout), <<>>, FALSE)} :
          /\ tb_layout' = r.layout
          /\ tb_columns' = r.columns_by_page
    /\ tb_pc' = "sort_again"
    /\ UNCHANGED tb_ocr
    /\ UNCHANGED OutsideTitle

NextTitle == TitleDetectColumns \/ TitleSort \/ TitlePopulate \/ TitleDetectAgain

SpecTitle == InitTitle /\ [][NextTitle]_vars

\* the widened box of a title overlaps another element of its page
WidenedOverlaps(t, lay) ==
    \E k \in 1..Len(lay) :
        /\ lay[k].id # t.id
        /\ lay[k].page = t.page
        /\ match_interval(t.ext, <<lay[k].x0, lay[k].x1>>)
        /\ match_interval(<<t.y0, t.y1>>, <<lay[k].y0, lay[k].y1>>)

\* C27: when detect_columns has returned, after the first call and after the
\* second, the widened box of every Title that carries extended_x overlaps
\* no other element of its page
C27_WidenedBoxFree ==
    tb_pc \in {"sort", "sort_again"} =>
        \A k \in 1..Len(tb_layout) :
            (tb_layout[k].type = "title" /\ tb_layout[k].ext # <<>>)
                => ~WidenedOverlaps(tb_layout[k], tb_layout)

(* ---------------------------------------------------------------------- *)
(* Further claims on SpecLines                                             *)
(* ---------------------------------------------------------------------- *)

\* a column of the page strictly between the words a and b, both in its y-range
SeparatorBetween(a, b, cols) ==
    \E k \in 1..Len(cols) :
        /\ a.x1 < cols[k][1]
        /\ cols[k][1] < b.x0
        /\ match_interval(<<a.y0, a.y1>>, <<cols[k][2], cols[k][3]>>)
        /\ match_interval(<<b.y0, b.y1>>, <<cols[k][2], cols[k][3]>>)

\* C28: no line built by build_lines_from_bbox with a column map holds two
\* words with a column separator of their page strictly between them
C28_NoColumnInsideLine ==
    bl_pc = "bbox" =>
        \A k \in 1..Len(bl_lines) :
            bl_lines[k].type = "line" =>
                \A i, j \in 1..Len(bl_lines[k].content) :
                    ~SeparatorBetween(bl_lines[k].content[i], bl_lines[k].content[j],
                                   ColumnsOfPage(bl_columns, bl_lines[k].page))

\* C28 witness: a line of two words, and a second line of the same page kept
\* apart from it by a separator although its word matches the line's interval
C28_SeparatedWitness ==
    /\ bl_pc = "bbox"
    /\ bl_columns # <<>>
    /\ \E k, m \in 1..Len(bl_lines) :
          /\ k # m
          /\ bl_lines[k].type = "line"
          /\ bl_lines[m].type = "line"
          /\ bl_lines[k].page = bl_lines[m].page
          /\ Len(bl_lines[k].content) >= 2
          /\ match_avg_interval(bl_lines[k].content, bl_lines[m].content[1],
                                bl_threshold, FALSE)
          /\ \E i \in 1..Len(bl_lines[k].content) :
                \/ SeparatorBetween(bl_lines[k].content[i], bl_lines[m].content[1],
                                 ColumnsOfPage(bl_columns, bl_lines[k].page))
                \/ SeparatorBetween(bl_lines[m].content[1], bl_lines[k].content[i],
                                 ColumnsOfPage(bl_columns, bl_lines[k].page))

(* ---------------------------------------------------------------------- *)
(* Specification SpecContent: make_table_content on the Table TATR gives   *)
(* for a predicted grid with at most one spanning-cell prediction, the     *)
(* OCR holding one word in the middle of every grid cell of some rows      *)
(* ---------------------------------------------------------------------- *)
MaxContentRows == 3     \* predicted rows of the table
MaxContentColumns == 2  \* predicted columns of the table

\* the cells TATR hands over, with the page of the table
TatrCells(g, sps) ==
    [k \in 1..(g.rows * g.columns) |->
        PCell(0, convert_to_spanning_cells(convert_to_cells(g), sps)[k].x0,
                 convert_to_spanning_cells(convert_to_cells(g), sps)[k].y0,
                 convert_to_spanning_cells(convert_to_cells(g), sps)[k].x1,
                 convert_to_spanning_cells(convert_to_cells(g), sps)[k].y1,
                 convert_to_spanning_cells(convert_to_cells(g), sps)[k].label)]

TatrTable(g, sps) ==
    [PElem("table", 0, 0, 0, CellW * g.columns, CellH * g.rows)
        EXCEPT !.cells_none = FALSE, !.cells = TatrCells(g, sps)]

\* one word in the middle of every grid cell of the rows of `written`
RowWords(g, written) ==
    ConcatAll([k \in 1..(g.rows * g.columns) |->
        IF ((k - 1) \div g.columns) + 1 \notin written THEN <<>>
        ELSE <<PWord("w", 0, CellW * ((k - 1) % g.columns) + 4,
                     CellH * ((k - 1) \div g.columns) + 4,
                     CellW * ((k - 1) % g.columns) + CellW - 4,
                     CellH * ((k - 1) \div g.columns) + CellH - 4)>>])

InitContent ==
    /\ ct_table = <<>>
    /\ ct_words = <<>>
    /\ ct_made = <<>>
    /\ ct_pc = "make"
    /\ IdleOutsideContent

\* make_table_content(element, table_content, threshold_word = 0.5)
MakeTableContent ==
    /\ ct_pc = "make"
    /\ \E g \in [rows : 1..MaxContentRows, columns : 1..MaxContentColumns, header : BOOLEAN] :
          \E sp \in {<<>>} \cup {<<b>> : b \in SpanBoxes}, written \in SUBSET (1..g.rows) :
              /\ ct_table' = TatrTable(g, sp)
              /\ ct_words' = RowWords(g, written)
              /\ ct_made' = make_table_content(ct_table', ct_words', 2)
    /\ ct_pc' = "made"
    /\ UNCHANGED OutsideContent

NextContent == MakeTableContent

SpecContent == InitContent /\ [][NextContent]_vars

\* len(row) summed over the rows of content
RECURSIVE Entries(_)
Entries(rows) == IF rows = <<>> THEN 0 ELSE Len(Head(rows)) + Entries(Tail(rows))

\* C29: the content make_table_content yields is a rectangular grid that
\* matches the cell list: every row has the same length and the rows hold
\* len(cells) entries in all
C29_RectangularContent ==
    (ct_pc = "made" /\ ct_made.tag = "ok") =>
        /\ \A i, j \in 1..Len(ct_made.element.rows) :
              Len(ct_made.element.rows[i]) = Len(ct_made.element.rows[j])
        /\ Entries(ct_made.element.rows) = Len(ct_made.element.cells)

(* ---------------------------------------------------------------------- *)
(* enrichment/layout_modifier.py: joining the lists cut by a page break.  *)
(* An element is [id, type, page, inferred, content, pages, has_idx,      *)
(* item_idx, desc_idx]: has_idx tells whether metadata holds "item_idx"   *)
(* (and "desc_idx"); the content of a word is a sequence of characters.   *)
(* ---------------------------------------------------------------------- *)
\* most elements of a layout
MaxListElems == 4

\* enrichment_config.list_starters: LIST_STARTERS, as far as the words use it
ListStarters == {"-"}

\* the characters s[i], ..., s[j - 1] are digits
DigitRun(s, i, j) == \A k \in i..(j - 1) : s[k] \in DigitChars

RECURSIVE NumTail(_, _)
\* (\.\d+)*$ matches s from position j
NumTail(s, j) ==
    \/ j = Len(s) + 1
    \/ /\ j <= Len(s)
       /\ s[j] = "."
       /\ \E k \in (j + 2)..(Len(s) + 1) : DigitRun(s, j + 1, k) /\ NumTail(s, k)

\* REGEX_NUM_STARTER.match(s): ^(?:\d+\.\d*|\.\d+)(\.\d+)*$
regex_num_starter(s) ==
    \/ \E a \in 2..Len(s) :
          /\ DigitRun(s, 1, a)
          /\ s[a] = "."
          /\ \E b \in (a + 1)..(Len(s) + 1) : DigitRun(s, a + 1, b) /\ NumTail(s, b)
    \/ /\ s # <<>>
       /\ s[1] = "."
       /\ \E b \in 3..(Len(s) + 1) : DigitRun(s, 2, b) /\ NumTail(s, b)

\* List.merge_element(other) on two lists: self afterwards
merge_list(self, next_elem) ==
    [self EXCEPT
        !.item_idx = IF self.has_idx /\ next_elem.has_idx
                     THEN @ \o [k \in 1..Len(next_elem.item_idx) |->
                                    next_elem.item_idx[k] + Len(self.content)]
                     ELSE @,
        !.desc_idx = IF self.has_idx /\ next_elem.has_idx
                     THEN @ \o [k \in 1..Len(next_elem.desc_idx) |->
                                    next_elem.desc_idx[k] + Len(self.content)]
                     ELSE @,
        !.content = @ \o next_elem.content,
        !.pages = (IF @ = <<>> THEN <<self.page>> ELSE @) \o <<next_elem.page>>]

\* the three tests on the start of next_elem: "merge", "skip", or
\* "IndexError" when content[0] of a list without words is read
ListStart(next_elem) ==
    IF next_elem.has_idx
    THEN IF \E k \in 1..Len(next_elem.item_idx) : next_elem.item_idx[k] = 0
         THEN "merge" ELSE "skip"
    ELSE IF /\ next_elem.content # <<>>
            /\ next_elem.content[1] # <<>>
            /\ next_elem.content[1][1] \in ListStarters
    THEN "merge"
    ELSE IF next_elem.content = <<>> THEN "IndexError"
    ELSE IF regex_num_starter(next_elem.content[1]) THEN "merge" ELSE "skip"

\* the condition of join_list_overlapping_pages on an element and its
\* candidate
ListCondition(element, next_elem) ==
    IF next_elem.type = "list" /\ next_elem.page = element.page + 1
    THEN ListStart(next_elem) ELSE "skip"

RECURSIVE ListLoop(_, _, _, _)
\* one turn of the loop on a List, next_elem_pos being the position of its
\* candidate (0: None) and verdict what the condition gives
ListTurn(lay, current_elem, remove_index, joined, next_elem_pos, verdict) ==
    IF verdict = "merge"
    THEN ListLoop([lay EXCEPT ![current_elem] = merge_list(@, lay[next_elem_pos])],
                  current_elem + 1,
                  Append(remove_index, next_elem_pos),
                  Append(joined, <<current_elem, next_elem_pos>>))
    ELSE IF verdict = "skip"
    THEN ListLoop(lay, current_elem + 1, remove_index, joined)
    ELSE [root |-> lay, remove_index |-> <<>>, joined |-> joined, raised |-> verdict]

\* the loop of join_list_overlapping_pages: [root, remove_index, joined,
\* raised], remove_index being the list of the code, in 1-based positions
ListLoop(lay, current_elem, remove_index, joined) ==
    IF current_elem > Len(lay)
    THEN [root |-> lay, remove_index |-> remove_index, joined |-> joined, raised |-> "-"]
    ELSE IF \/ \E k \in 1..Len(remove_index) : remove_index[k] = current_elem
            \/ lay[current_elem].type # "list"
            \/ get_next_candidate_position(current_elem, lay) = 0
    THEN ListLoop(lay, current_elem + 1, remove_index, joined)
    ELSE ListTurn(lay, current_elem, remove_index, joined,
                  get_next_candidate_position(current_elem, lay),
                  ListCondition(lay[current_elem],
                                lay[get_next_candidate_position(current_elem, lay)]))

RECURSIVE ListPopped(_, _)
\* for n in remove_index[::-1]: layout.root.pop(n); r is the result of the
\* loop, k the number of positions still to pop
ListPopped(r, k) ==
    IF k = 0 \/ r.raised # "-" THEN r
    ELSE IF r.remove_index[k] > Len(r.root)
    THEN [r EXCEPT !.raised = "IndexError"]
    ELSE ListPopped([r EXCEPT !.root = Pick(@, (1..Len(@)) \ {r.remove_index[k]})], k - 1)

\* join_list_overlapping_pages(layout): layout.root afterwards, the pairs
\* merged and the exception raised
join_list_overlapping_pages(lay) ==
    ListPopped(ListLoop(lay, 1, <<>>, <<>>), Len(ListLoop(lay, 1, <<>>, <<>>).remove_index))

\* ---- the layouts joined
ListElem(t, inferred, content, has_idx, item_idx) ==
    [id |-> 0, type |-> t, page |-> 0, inferred |-> inferred, content |-> content,
     pages |-> <<>>, has_idx |-> has_idx, item_idx |-> item_idx, desc_idx |-> <<>>]

\* lists starting with a letter, a dash, a number with a dot, a number
\* alone; lists split into items, the first word starting one or not; a list
\* without words; an inferred list; a footer; a text
ListChoices ==
    { ListElem("list", FALSE, << <<"a">>, <<"b">> >>, FALSE, <<>>),
      ListElem("list", FALSE, << <<"-">>, <<"c">> >>, FALSE, <<>>),
      ListElem("list", FALSE, << <<"1", ".">>, <<"d">> >>, FALSE, <<>>),
      ListElem("list", FALSE, << <<"1">>, <<"e">> >>, FALSE, <<>>),
      ListElem("list", FALSE, << <<"-">>, <<"f">> >>, TRUE, <<0>>),
      ListElem("list", FALSE, << <<"-">>, <<"g">> >>, TRUE, <<1>>),
      ListElem("list", FALSE, <<>>, FALSE, <<>>),
      ListElem("list", TRUE, << <<"-">>, <<"h">> >>, FALSE, <<>>),
      ListElem("footer", FALSE, << <<"2">> >>, FALSE, <<>>),
      ListElem("text", FALSE, << <<"-">>, <<"t">> >>, FALSE, <<>>) }

\* the elements up to position brk on page 0, the others on page 1, each
\* with its position as identity
ListLayout(elems, brk) ==
    [k \in 1..Len(elems) |->
        [elems[k] EXCEPT !.id = k, !.page = IF k <= brk THEN 0 ELSE 1]]

InitList ==
    /\ ls_before = <<>>
    /\ ls_layout = <<>>
    /\ ls_joined = <<>>
    /\ ls_raised = "-"
    /\ ls_pc = "enrich"
    /\ IdleOutsideList

\* LayoutModifier.join_list_overlapping_pages(layout)
JoinListOverlappingPages ==
    /\ ls_pc = "enrich"
    /\ \E n \in 1..MaxListElems, brk \in 0..MaxListElems :
          \E elems \in [1..n -> ListChoices] :
             /\ brk <= n
             /\ ls_before' = ListLayout(elems, brk)
             /\ \E r \in {join_list_overlapping_pages(ListLayout(elems, brk))} :
                   /\ ls_layout' = r.root
                   /\ ls_joined' = r.joined
                   /\ ls_raised' = r.raised
    /\ ls_pc' = "joined"
    /\ UNCHANGED OutsideList

NextList == JoinListOverlappingPages

SpecList == InitList /\ [][NextList]_vars

\* the words of a layout, element after element
ListWords(lay) == ConcatAll([k \in 1..Len(lay) |-> lay[k].content])

\* how often w occurs among the words of a layout
WordCount(lay, w) == Cardinality({k \in 1..Len(ListWords(lay)) : ListWords(lay)[k] = w})

\* two layouts hold the same words, each as often
SameWords(lay, before) ==
    /\ Len(ListWords(lay)) = Len(ListWords(before))
    /\ \A k \in 1..Len(ListWords(before)) :
          WordCount(lay, ListWords(before)[k]) = WordCount(before, ListWords(before)[k])

\* the positions merged into another element
MergedPositions(pairs) == {pairs[k][2] : k \in 1..Len(pairs)}

\* C30: join_list_overlapping_pages merges a List into at most one earlier
\* List and removes exactly the merged elements, each once: the words of the
\* layout are the same multiset as before and the elements left are those
\* that were not merged, in their order
C30_MergedOnceRemovedOnce ==
    ls_pc = "joined" =>
        /\ \A i, j \in 1..Len(ls_joined) :
              ls_joined[i][2] = ls_joined[j][2] => i = j
        /\ \A k \in 1..Len(ls_joined) : ls_joined[k][1] < ls_joined[k][2]
        /\ SameWords(ls_layout, ls_before)
        /\ [k \in 1..Len(ls_layout) |-> ls_layout[k].id]
              = [k \in 1..(Len(ls_before) - Cardinality(MergedPositions(ls_joined))) |->
                    Pick(ls_before, (1..Len(ls_before)) \ MergedPositions(ls_joined))[k].id]

====
